---- MODULE Spec2Model ----
(***************************************************************************)
(* The TODO mutation-and-audit subsystem of mvult/secretary.                *)
(*                                                                         *)
(* Two handler variants are modelled over the same relational schema:      *)
(*   "rpc"  - backend/internal/server/server.go (ConnectRPC, sqlc queries) *)
(*   "http" - the plain JSON handlers (handleCreateTodo, ...)              *)
(* Both declare package server / type Server, so one build holds exactly   *)
(* one of them: the variant is chosen in Init and never changes.           *)
(*                                                                         *)
(* Go strings are sequences of one-character strings, so that TrimSpace    *)
(* and ToLower are computed rather than assumed.  Nullable columns are     *)
(* pgtype-style records [Valid, value].                                    *)
(***************************************************************************)
EXTENDS Integers, Sequences, FiniteSets, TLC

VARIABLES
    variant,        \* "rpc" | "http": which handler set this server runs
    user,           \* table "user":  id -> [Role : pgtype.Text]
    recording,      \* table recording: the set of existing recording ids
    audio_url,      \* column recording.audio_url: id -> pgtype.Text
    todo,           \* table todo: id -> row
    todo_history,   \* table todo_history: a set of rows, keyed by ID
    todo_id_seq,    \* identity sequence of todo.id (last value handed out)
    todo_history_id_seq, \* bigserial sequence of todo_history.id
    now,            \* the store's clock: start time of the last transaction
    resp,           \* the request just served and its response, until delivered
    mutations,      \* history variable: todo id -> committed mutations of it
    issued,         \* history variable: the number of requests issued so far
    display,        \* mapStatus at work: the stored status it is given, the
                    \* word that status spells, and the category it returned
    tokenTTL,       \* Server.tokenTTL, in seconds
    clock,          \* time.Now(), in ticks (TicksPerSecond to the second)
    tokens,         \* history variable: the tokens login issued, each with
                    \* the tick it was issued at
    guard,          \* the last request that met the auth guard: its path, its
                    \* Authorization header, whether its handler ran, its code
    conn,           \* the pool connection the last request used, as the
                    \* request left it
    txn,            \* the transaction of each concurrent UpdateTodo call: how
                    \* far it is, its request, start time and pending writes
    writes          \* history variable: the calls in the order their UPDATE
                    \* statements were applied

\* The variables other than the store's and the request's: what the
\* specifications of the single functions and guards work on.
aux == <<display, tokenTTL, clock, tokens, guard, txn, writes>>

vars == <<variant, user, recording, audio_url, todo, todo_history, todo_id_seq,
          todo_history_id_seq, now, resp, mutations, issued, aux, conn>>

-----------------------------------------------------------------------------
(* Bounds *)

\* Requests issued in one behaviour.
MaxRequests == 3

\* TLC evaluates with 32-bit integers, so the widths are scaled: the
\* store's integer (Go int32, SQL int4) has Int32Bits bits, and a Go int64 is
\* any integer.  Ids written Int32Modulus + k stand for 2^32 + k.
Int32Bits == 16
Int32Modulus == 2^Int32Bits

-----------------------------------------------------------------------------
(* Go strings *)

EmptyString == <<>>
s_not_started == <<"n","o","t","_","s","t","a","r","t","e","d">>
s_partial     == <<"p","a","r","t","i","a","l">>
s_done        == <<"d","o","n","e">>
s_blocked     == <<"b","l","o","c","k","e","d">>
s_skipped     == <<"s","k","i","p","p","e","d">>
s_pending     == <<"p","e","n","d","i","n","g">>
s_in_progress == <<"i","n","_","p","r","o","g","r","e","s","s">>
s_in_progress_sp == <<"i","n"," ","p","r","o","g","r","e","s","s">>
s_completed   == <<"c","o","m","p","l","e","t","e","d">>

IsSpace(c) == c \in {" ", "\t", "\n"}

RECURSIVE TrimLeft(_)
TrimLeft(s) ==
    IF s # <<>> /\ IsSpace(Head(s)) THEN TrimLeft(Tail(s)) ELSE s

RECURSIVE TrimRight(_)
TrimRight(s) ==
    IF s # <<>> /\ IsSpace(s[Len(s)])
    THEN TrimRight(SubSeq(s, 1, Len(s) - 1))
    ELSE s

\* strings.TrimSpace
TrimSpace(s) == TrimRight(TrimLeft(s))

UpperCase == <<"A","B","C","D","E","F","G","H","I","J","K","L","M",
               "N","O","P","Q","R","S","T","U","V","W","X","Y","Z">>
LowerCase == <<"a","b","c","d","e","f","g","h","i","j","k","l","m",
               "n","o","p","q","r","s","t","u","v","w","x","y","z">>

LowerChar(c) ==
    IF \E i \in 1..Len(UpperCase) : UpperCase[i] = c
    THEN LowerCase[CHOOSE i \in 1..Len(UpperCase) : UpperCase[i] = c]
    ELSE c

\* A ToLower that leaves the letters as they are.
ToLowerKeepsCase(s) == s

\* strings.ToLower
ToLower(s) == [i \in 1..Len(s) |-> LowerChar(s[i])]

-----------------------------------------------------------------------------
(* pgtype values *)

Int4(v)  == [Int32 |-> v, Valid |-> TRUE]
NullInt4 == [Int32 |-> 0, Valid |-> FALSE]
Text(s)  == [String |-> s, Valid |-> TRUE]
NullText == [String |-> EmptyString, Valid |-> FALSE]

\* Go's int32(v) conversion of an int64: keep the low bits, two's complement.
int32(v) ==
    LET m == v % Int32Modulus
    IN IF m >= Int32Modulus \div 2 THEN m - Int32Modulus ELSE m

\* An int4 parameter bound from a Go int64 by the driver: values outside the
\* int4 range are refused when the statement's arguments are encoded.
FitsInt4(v) == v >= -(Int32Modulus \div 2) /\ v < Int32Modulus \div 2

-----------------------------------------------------------------------------
(* Status mapping and validation *)

CanonicalStatus == {s_not_started, s_partial, s_done, s_blocked, s_skipped}

TodoStatus ==
    {"TODO_STATUS_UNSPECIFIED", "TODO_STATUS_NOT_STARTED", "TODO_STATUS_PARTIAL",
     "TODO_STATUS_DONE", "TODO_STATUS_BLOCKED", "TODO_STATUS_SKIPPED"}

\* A validStatus that lets every status through.
validStatusAny(status) == TRUE

validStatus(status) ==
    status \in {s_not_started, s_partial, s_done, s_blocked, s_skipped}

\* A validateTodoInput that looks at the name alone.
validateTodoInputNameOnly(name, status) ==
    IF TrimSpace(name) = EmptyString THEN "name is required" ELSE "ok"

\* "ok" for a nil error, otherwise the error's text.
validateTodoInput(name, status) ==
    IF TrimSpace(name) = EmptyString THEN "name is required"
    ELSE IF status = EmptyString THEN "status is required"
    ELSE IF ~validStatus(status) THEN "invalid status"
    ELSE "ok"

mapStatus(status) ==
    LET st == ToLower(TrimSpace(status)) IN
    IF st \in {s_not_started, s_pending} THEN "TODO_STATUS_PARTIAL"
    ELSE IF st \in {s_partial, s_in_progress, s_in_progress_sp} THEN "TODO_STATUS_PARTIAL"
    ELSE IF st \in {s_done, s_completed} THEN "TODO_STATUS_DONE"
    ELSE IF st = s_blocked THEN "TODO_STATUS_BLOCKED"
    ELSE IF st = s_skipped THEN "TODO_STATUS_SKIPPED"
    ELSE "TODO_STATUS_UNSPECIFIED"

mapStatusToString(status) ==
    CASE status = "TODO_STATUS_NOT_STARTED" -> s_not_started
      [] status = "TODO_STATUS_PARTIAL" -> s_partial
      [] status = "TODO_STATUS_DONE" -> s_done
      [] status = "TODO_STATUS_BLOCKED" -> s_blocked
      [] status = "TODO_STATUS_SKIPPED" -> s_skipped
      [] OTHER -> EmptyString

nullInt(v) == IF v = 0 THEN NullInt4 ELSE Int4(v)

-----------------------------------------------------------------------------
(* The relational store: schema.sql and the statements of the query files.  *)
(* A db value is the part of the store a transaction works on.              *)

Database ==
    [user |-> user, recording |-> recording, todo |-> todo,
     todo_history |-> todo_history, todo_id_seq |-> todo_id_seq,
     todo_history_id_seq |-> todo_history_id_seq]

\* A foreign key column: NULL, or the key of an existing row.
RefOk(col, keys) == col.Valid => col.Int32 \in keys

\* ORDER BY h.changed_at DESC
RECURSIVE OrderByChangedAtDesc(_)
OrderByChangedAtDesc(rows) ==
    IF rows = {} THEN <<>>
    ELSE LET top == CHOOSE r \in rows :
                       \A q \in rows : q.ChangedAt <= r.ChangedAt
         IN <<top>> \o OrderByChangedAtDesc(rows \ {top})

\* ORDER BY t.id DESC
RECURSIVE OrderByIdDesc(_)
OrderByIdDesc(rows) ==
    IF rows = {} THEN <<>>
    ELSE LET top == CHOOSE r \in rows : \A q \in rows : q.ID <= r.ID
         IN <<top>> \o OrderByIdDesc(rows \ {top})

\* -- name: GetUser :one
GetUser(db, id) ==
    IF id \in DOMAIN db.user
    THEN [err |-> "nil", row |-> db.user[id]]
    ELSE [err |-> "ErrNoRows", row |-> [Role |-> NullText]]

\* -- name: CreateTodo :one      INSERT INTO todo ... RETURNING ...
\* The identity value is drawn before the row's foreign keys are checked, and
\* a sequence never takes a value back.
SqlCreateTodo(db, arg) ==
    LET id  == db.todo_id_seq + 1
        row == [ID |-> id, Name |-> arg.Name, Desc |-> arg.Desc,
                Status |-> arg.Status, UserID |-> arg.UserID,
                CreatedAtRecordingID |-> arg.CreatedAtRecordingID,
                UpdatedAtRecordingID |-> arg.UpdatedAtRecordingID]
        drawn == [db EXCEPT !.todo_id_seq = id]
    IN  IF /\ RefOk(arg.UserID, DOMAIN db.user)
           /\ RefOk(arg.CreatedAtRecordingID, db.recording)
           /\ RefOk(arg.UpdatedAtRecordingID, db.recording)
        THEN [err |-> "nil", row |-> row,
              db |-> [drawn EXCEPT !.todo =
                        [i \in DOMAIN db.todo \cup {id} |->
                            IF i = id THEN row ELSE db.todo[i]]]]
        ELSE [err |-> "constraint", row |-> row, db |-> drawn]

\* -- name: UpdateTodo :one      UPDATE todo SET ... WHERE id = $1 RETURNING ...
SqlUpdateTodo(db, arg) ==
    IF arg.ID \notin DOMAIN db.todo
    THEN [err |-> "ErrNoRows", row |-> <<>>, db |-> db]
    ELSE LET row == [db.todo[arg.ID] EXCEPT
                        !.Name = arg.Name, !.Desc = arg.Desc,
                        !.Status = arg.Status, !.UserID = arg.UserID,
                        !.UpdatedAtRecordingID = arg.UpdatedAtRecordingID]
         IN IF /\ RefOk(arg.UserID, DOMAIN db.user)
               /\ RefOk(arg.UpdatedAtRecordingID, db.recording)
            THEN [err |-> "nil", row |-> row,
                  db |-> [db EXCEPT !.todo[arg.ID] = row]]
            ELSE [err |-> "constraint", row |-> row, db |-> db]

\* -- name: GetTodo :one         SELECT ... FROM todo t WHERE t.id = $1
SqlGetTodo(db, id) ==
    IF id \in DOMAIN db.todo
    THEN [err |-> "nil", row |-> db.todo[id]]
    ELSE [err |-> "ErrNoRows", row |-> <<>>]

\* A DELETE whose foreign key from todo_history does not cascade to the ledger.
SqlDeleteTodoNoCascade(db, id) ==
    [err |-> "nil",
     db |-> [db EXCEPT !.todo = [i \in DOMAIN db.todo \ {id} |-> db.todo[i]]]]

\* -- name: DeleteTodo :exec     DELETE FROM todo WHERE id = $1
\* todo_history_todo_fk is ON DELETE CASCADE: the todo's ledger rows go too.
SqlDeleteTodo(db, id) ==
    [err |-> "nil",
     db |-> [db EXCEPT
               !.todo = [i \in DOMAIN db.todo \ {id} |-> db.todo[i]],
               !.todo_history = {h \in db.todo_history : h.TodoID # id}]]

\* -- name: CreateTodoHistory :exec   INSERT INTO todo_history ...
\* changed_at DEFAULT now(): the start time of the enclosing transaction.
SqlCreateTodoHistory(db, arg, txStart) ==
    LET id  == db.todo_history_id_seq + 1
        row == [ID |-> id, TodoID |-> arg.TodoID,
                ActorUserID |-> arg.ActorUserID, ChangeType |-> arg.ChangeType,
                Name |-> arg.Name, Desc |-> arg.Desc, Status |-> arg.Status,
                UserID |-> arg.UserID,
                CreatedAtRecordingID |-> arg.CreatedAtRecordingID,
                UpdatedAtRecordingID |-> arg.UpdatedAtRecordingID,
                ChangedAt |-> txStart]
        drawn == [db EXCEPT !.todo_history_id_seq = id]
    IN  IF /\ arg.TodoID \in DOMAIN db.todo
           /\ RefOk(arg.ActorUserID, DOMAIN db.user)
           /\ RefOk(arg.UserID, DOMAIN db.user)
           /\ RefOk(arg.CreatedAtRecordingID, db.recording)
           /\ RefOk(arg.UpdatedAtRecordingID, db.recording)
        THEN [err |-> "nil",
              db |-> [drawn EXCEPT !.todo_history = db.todo_history \cup {row}]]
        ELSE [err |-> "constraint", db |-> drawn]

\* -- name: ListTodoHistory :many   ... WHERE h.todo_id = $1 ORDER BY h.changed_at DESC
SqlListTodoHistory(db, id) ==
    OrderByChangedAtDesc({h \in db.todo_history : h.TodoID = id})

RowsOf(tbl) == {tbl[i] : i \in DOMAIN tbl}

\* -- name: ListTodosByUser :many   ... WHERE t.user_id = $1 ORDER BY t.id DESC
SqlListTodosByUser(db, userID) ==
    OrderByIdDesc({r \in RowsOf(db.todo) :
                      r.UserID.Valid /\ r.UserID.Int32 = userID})

\* -- name: ListTodosByRecording :many  ... WHERE t.created_at_recording_id = $1
SqlListTodosByRecording(db, recordingID) ==
    OrderByIdDesc({r \in RowsOf(db.todo) :
                      /\ r.CreatedAtRecordingID.Valid
                      /\ r.CreatedAtRecordingID.Int32 = recordingID})

\* -- name: DeleteRecording :exec     DELETE FROM recording WHERE id = $1
\* todo's foreign keys to recording are ON DELETE NO ACTION: a referenced
\* recording cannot be deleted.  todo_history's are ON DELETE SET NULL.
SqlDeleteRecording(db, id) ==
    IF \E r \in RowsOf(db.todo) :
          \/ r.CreatedAtRecordingID = Int4(id)
          \/ r.UpdatedAtRecordingID = Int4(id)
    THEN [err |-> "constraint", db |-> db]
    ELSE [err |-> "nil",
          db |-> [db EXCEPT
                    !.recording = db.recording \ {id},
                    !.todo_history =
                       {[h EXCEPT
                           !.CreatedAtRecordingID =
                               IF h.CreatedAtRecordingID = Int4(id)
                               THEN NullInt4 ELSE h.CreatedAtRecordingID,
                           !.UpdatedAtRecordingID =
                               IF h.UpdatedAtRecordingID = Int4(id)
                               THEN NullInt4 ELSE h.UpdatedAtRecordingID] :
                        h \in db.todo_history}]]

\* A rollback that leaves the transaction's writes in place.
RollbackKeepsWork(pre, work) == work

\* tx.Rollback (deferred in every mutation handler): the tables are those of
\* before BeginTx; sequence values drawn inside the transaction stay drawn.
Rollback(pre, work) ==
    [pre EXCEPT !.todo_id_seq = work.todo_id_seq,
                !.todo_history_id_seq = work.todo_history_id_seq]

-----------------------------------------------------------------------------
(* Handlers.  A handler is a function of the committed store, the start     *)
(* time its transaction would get, the request, and the step (if any) at    *)
(* which the store fails it: "BeginTx", "todo" (the primary statement),     *)
(* "history" (the ledger insert), "delete" (the DELETE statement), "Commit".*)
(* It returns the response and the store the request leaves behind.         *)

NoBody == [kind |-> "none"]

\* tx: "none" (no transaction was opened), "rollback", "commit".
\* log: the ledger rows the call's transaction inserted, as the transaction
\* saw them (a history value: a reply that did not commit logs nothing).
Reply(code, body, db, tx) ==
    [code |-> code, body |-> body, db |-> db, tx |-> tx, log |-> {}]

\* The reply of a call whose transaction committed.
Committed(code, body, db, log) ==
    [code |-> code, body |-> body, db |-> db, tx |-> "commit", log |-> log]

\* ---- RPC variant (server.go) ----

\* The secretaryv1.Todo message built from a todo row.
TodoMessage(row) ==
    [Id |-> row.ID, Name |-> row.Name, Desc |-> row.Desc.String,
     Status |-> mapStatus(row.Status.String),
     UserId |-> row.UserID.Int32,
     CreatedAtRecordingId |->
        IF row.CreatedAtRecordingID.Valid THEN row.CreatedAtRecordingID.Int32 ELSE 0,
     UpdatedAtRecordingId |->
        IF row.UpdatedAtRecordingID.Valid THEN row.UpdatedAtRecordingID.Int32 ELSE 0]

\* The secretaryv1.TodoHistory message built from a ledger row.  (ChangedAt, a
\* formatted time string, is left out of both variants' history items.)
TodoHistoryMessage(row) ==
    [Id |-> row.ID, TodoId |-> row.TodoID, ChangeType |-> row.ChangeType,
     Name |-> row.Name.String, Desc |-> row.Desc.String,
     Status |-> mapStatus(row.Status.String),
     UserId |-> row.UserID.Int32,
     ActorUserId |-> IF row.ActorUserID.Valid THEN row.ActorUserID.Int32 ELSE 0,
     CreatedAtRecordingId |->
        IF row.CreatedAtRecordingID.Valid THEN row.CreatedAtRecordingID.Int32 ELSE 0,
     UpdatedAtRecordingId |->
        IF row.UpdatedAtRecordingID.Valid THEN row.UpdatedAtRecordingID.Int32 ELSE 0]

\* A ledger insert that leaves the description out.
historyArgNoDesc(todoRow, actor, changeType) ==
    [TodoID |-> todoRow.ID, ActorUserID |-> actor, ChangeType |-> changeType,
     Name |-> Text(todoRow.Name), Desc |-> NullText,
     Status |-> todoRow.Status, UserID |-> todoRow.UserID,
     CreatedAtRecordingID |-> todoRow.CreatedAtRecordingID,
     UpdatedAtRecordingID |-> todoRow.UpdatedAtRecordingID]

\* The ledger insert's arguments, as CreateTodo/UpdateTodo/DeleteTodo build them.
historyArg(todoRow, actor, changeType) ==
    [TodoID |-> todoRow.ID, ActorUserID |-> actor, ChangeType |-> changeType,
     Name |-> Text(todoRow.Name), Desc |-> todoRow.Desc,
     Status |-> todoRow.Status, UserID |-> todoRow.UserID,
     CreatedAtRecordingID |-> todoRow.CreatedAtRecordingID,
     UpdatedAtRecordingID |-> todoRow.UpdatedAtRecordingID]

CreateTodo(db, txStart, msg, fault) ==
    LET statusStr == mapStatusToString(msg.Status) IN
    IF validateTodoInput(msg.Name, statusStr) # "ok"
    THEN Reply("InvalidArgument", NoBody, db, "none")
    ELSE IF msg.UserId = 0
    THEN Reply("InvalidArgument", NoBody, db, "none")
    ELSE IF fault = "BeginTx"
    THEN Reply("Internal", NoBody, db, "none")
    ELSE
    LET arg == [Name |-> msg.Name,
                Desc |-> [String |-> msg.Desc, Valid |-> msg.Desc # EmptyString],
                Status |-> Text(statusStr),
                UserID |-> Int4(int32(msg.UserId)),
                CreatedAtRecordingID |->
                    IF msg.CreatedAtRecordingId # 0
                    THEN Int4(int32(msg.CreatedAtRecordingId)) ELSE NullInt4,
                UpdatedAtRecordingID |->
                    IF msg.UpdatedAtRecordingId # 0
                    THEN Int4(int32(msg.UpdatedAtRecordingId)) ELSE NullInt4]
        ins == SqlCreateTodo(db, arg)
    IN
    IF fault = "todo" THEN Reply("Internal", NoBody, Rollback(db, db), "rollback")
    ELSE IF ins.err # "nil"
    THEN Reply("Internal", NoBody, Rollback(db, ins.db), "rollback")
    ELSE
    LET actorID == msg.UserId   \* Defaulting to owner as actor
        hist == SqlCreateTodoHistory(ins.db,
                    historyArg(ins.row, Int4(int32(actorID)), "create"), txStart)
    IN
    IF fault = "history"
    THEN Reply("Internal", NoBody, Rollback(db, ins.db), "rollback")
    ELSE IF hist.err # "nil"
    THEN Reply("Internal", NoBody, Rollback(db, hist.db), "rollback")
    ELSE IF fault = "Commit"
    THEN Reply("Internal", NoBody, Rollback(db, hist.db), "rollback")
    ELSE Committed("OK", [kind |-> "todo", todo |-> TodoMessage(ins.row)],
                   hist.db, hist.db.todo_history \ ins.db.todo_history)

\* db.UpdateTodoParams, as UpdateTodo fills it from the request.
UpdateTodoParams(msg) ==
    [ID |-> int32(msg.Id),
     Name |-> msg.Name,
     Desc |-> [String |-> msg.Desc, Valid |-> msg.Desc # EmptyString],
     Status |-> Text(mapStatusToString(msg.Status)),
     UserID |-> Int4(int32(msg.UserId)),
     UpdatedAtRecordingID |->
         IF msg.UpdatedAtRecordingId # 0
         THEN Int4(int32(msg.UpdatedAtRecordingId)) ELSE NullInt4]

UpdateTodo(db, txStart, msg, fault) ==
    LET statusStr == mapStatusToString(msg.Status) IN
    IF validateTodoInput(msg.Name, statusStr) # "ok"
    THEN Reply("InvalidArgument", NoBody, db, "none")
    ELSE IF msg.UserId = 0
    THEN Reply("InvalidArgument", NoBody, db, "none")
    ELSE IF fault = "BeginTx"
    THEN Reply("Internal", NoBody, db, "none")
    ELSE
    LET arg == UpdateTodoParams(msg)
        upd == SqlUpdateTodo(db, arg)
    IN
    IF fault = "todo" THEN Reply("Internal", NoBody, Rollback(db, db), "rollback")
    ELSE IF upd.err = "ErrNoRows"
    THEN Reply("NotFound", NoBody, Rollback(db, upd.db), "rollback")
    ELSE IF upd.err # "nil"
    THEN Reply("Internal", NoBody, Rollback(db, upd.db), "rollback")
    ELSE
    LET actorID == msg.UserId   \* Defaulting to owner
        hist == SqlCreateTodoHistory(upd.db,
                    historyArg(upd.row, Int4(int32(actorID)), "update"), txStart)
    IN
    IF fault = "history"
    THEN Reply("Internal", NoBody, Rollback(db, upd.db), "rollback")
    ELSE IF hist.err # "nil"
    THEN Reply("Internal", NoBody, Rollback(db, hist.db), "rollback")
    ELSE IF fault = "Commit"
    THEN Reply("Internal", NoBody, Rollback(db, hist.db), "rollback")
    ELSE Committed("OK", [kind |-> "todo", todo |-> TodoMessage(upd.row)],
                   hist.db, hist.db.todo_history \ upd.db.todo_history)

\* userID: the value authMiddleware put in the request context (the token's
\* subject).
DeleteTodo(db, txStart, msg, fault, userID) ==
    LET u == GetUser(db, int32(userID)) IN
    IF u.err # "nil"
    THEN Reply("Internal", NoBody, db, "none")
    ELSE IF u.row.Role.String # <<"a","d","m","i","n">>
    THEN Reply("PermissionDenied", NoBody, db, "none")
    ELSE IF fault = "BeginTx"
    THEN Reply("Internal", NoBody, db, "none")
    ELSE
    LET get == SqlGetTodo(db, int32(msg.Id)) IN
    IF fault = "todo" THEN Reply("Internal", NoBody, Rollback(db, db), "rollback")
    ELSE IF get.err = "ErrNoRows"
    THEN Reply("NotFound", NoBody, Rollback(db, db), "rollback")
    ELSE
    LET actorID == get.row.UserID.Int32   \* Defaulting to owner
        hist == SqlCreateTodoHistory(db,
                    historyArg(get.row, Int4(actorID), "delete"), txStart)
        del  == SqlDeleteTodo(hist.db, int32(msg.Id))
    IN
    IF fault = "history"
    THEN Reply("Internal", NoBody, Rollback(db, db), "rollback")
    ELSE IF hist.err # "nil"
    THEN Reply("Internal", NoBody, Rollback(db, hist.db), "rollback")
    ELSE IF fault = "delete"
    THEN Reply("Internal", NoBody, Rollback(db, hist.db), "rollback")
    ELSE IF fault = "Commit"
    THEN Reply("Internal", NoBody, Rollback(db, del.db), "rollback")
    ELSE Committed("OK", NoBody, del.db,
                   hist.db.todo_history \ db.todo_history)

\* One statement, outside any transaction.
DeleteRecording(db, msg, fault, userID) ==
    LET u == GetUser(db, int32(userID)) IN
    IF u.err # "nil"
    THEN Reply("Internal", NoBody, db, "none")
    ELSE IF u.row.Role.String # <<"a","d","m","i","n">>
    THEN Reply("PermissionDenied", NoBody, db, "none")
    ELSE
    LET del == SqlDeleteRecording(db, int32(msg.Id)) IN
    IF fault = "delete" \/ del.err # "nil"
    THEN Reply("Internal", NoBody, db, "none")
    ELSE Reply("OK", NoBody, del.db, "none")

GetTodo(db, msg) ==
    LET get == SqlGetTodo(db, int32(msg.Id)) IN
    IF get.err = "ErrNoRows"
    THEN Reply("NotFound", NoBody, db, "none")
    ELSE Reply("OK", [kind |-> "todo", todo |-> TodoMessage(get.row)], db, "none")

\* msg.RecordingId is an optional field: [set |-> FALSE] or [set |-> TRUE, v |-> id].
ListTodos(db, msg) ==
    IF msg.RecordingId.set
    THEN LET rows == SqlListTodosByRecording(db, int32(msg.RecordingId.v)) IN
         Reply("OK", [kind |-> "todos",
                      todos |-> [i \in 1..Len(rows) |-> TodoMessage(rows[i])]],
               db, "none")
    ELSE IF msg.UserId = 0
    THEN Reply("InvalidArgument", NoBody, db, "none")
    ELSE LET rows == SqlListTodosByUser(db, int32(msg.UserId)) IN
         Reply("OK", [kind |-> "todos",
                      todos |-> [i \in 1..Len(rows) |-> TodoMessage(rows[i])]],
               db, "none")

ListTodoHistory(db, msg) ==
    LET rows == SqlListTodoHistory(db, int32(msg.TodoId)) IN
    Reply("OK", [kind |-> "history",
                 history |-> [i \in 1..Len(rows) |-> TodoHistoryMessage(rows[i])]],
          db, "none")

\* ---- plain-HTTP variant (handleCreateTodo, handleUpdateTodo, ...) ----

\* The response class of an HTTP status written by writeJSON / writeError.
StatusClass(status) ==
    CASE status \in {200, 201, 204} -> "OK"
      [] status = 400 -> "InvalidArgument"
      [] status = 401 -> "Unauthenticated"
      [] status = 403 -> "PermissionDenied"
      [] status = 404 -> "NotFound"
      [] OTHER -> "Internal"

\* parseID, applied to the number the path segment spells.
parseID(id) == id > 0

\* Row.Scan of a todo row into the Go struct Todo (plain string and int64
\* fields): the driver refuses to scan NULL into a non-pointer field.
ScanTodo(row) ==
    IF /\ row.Desc.Valid /\ row.Status.Valid /\ row.UserID.Valid
       /\ row.CreatedAtRecordingID.Valid /\ row.UpdatedAtRecordingID.Valid
    THEN [err |-> "nil",
          todo |-> [ID |-> row.ID, Name |-> row.Name, Desc |-> row.Desc.String,
                    Status |-> row.Status.String, UserID |-> row.UserID.Int32,
                    CreatedAtRecordingID |-> row.CreatedAtRecordingID.Int32,
                    UpdatedAtRecordingID |-> row.UpdatedAtRecordingID.Int32]]
    ELSE [err |-> "scan", todo |-> NoBody]

\* rows.Scan of a ledger row into the Go struct TodoHistory.
ScanTodoHistory(row) ==
    IF /\ row.ActorUserID.Valid /\ row.Name.Valid /\ row.Desc.Valid
       /\ row.Status.Valid /\ row.UserID.Valid
       /\ row.CreatedAtRecordingID.Valid /\ row.UpdatedAtRecordingID.Valid
    THEN [err |-> "nil",
          item |-> [ID |-> row.ID, TodoID |-> row.TodoID,
                    ActorUserID |-> row.ActorUserID.Int32,
                    ChangeType |-> row.ChangeType, Name |-> row.Name.String,
                    Desc |-> row.Desc.String, Status |-> row.Status.String,
                    UserID |-> row.UserID.Int32,
                    CreatedAtRecordingID |-> row.CreatedAtRecordingID.Int32,
                    UpdatedAtRecordingID |-> row.UpdatedAtRecordingID.Int32]]
    ELSE [err |-> "scan", item |-> NoBody]

\* The ledger insert of the plain-HTTP handlers, from the scanned Go struct.
httpHistoryArg(t, actorID, changeType) ==
    [TodoID |-> t.ID, ActorUserID |-> nullInt(actorID), ChangeType |-> changeType,
     Name |-> Text(t.Name), Desc |-> Text(t.Desc), Status |-> Text(t.Status),
     UserID |-> Int4(t.UserID),
     CreatedAtRecordingID |-> nullInt(t.CreatedAtRecordingID),
     UpdatedAtRecordingID |-> nullInt(t.UpdatedAtRecordingID)]

handleCreateTodo(db, txStart, req, fault) ==
    IF validateTodoInput(req.Name, req.Status) # "ok"
    THEN Reply(StatusClass(400), NoBody, db, "none")
    ELSE IF req.UserID = 0
    THEN Reply(StatusClass(400), NoBody, db, "none")
    ELSE IF fault = "BeginTx"
    THEN Reply(StatusClass(500), NoBody, db, "none")
    ELSE
    LET arg == [Name |-> req.Name, Desc |-> Text(req.Desc),
                Status |-> Text(req.Status), UserID |-> Int4(req.UserID),
                CreatedAtRecordingID |-> nullInt(req.CreatedAtRecordingID),
                UpdatedAtRecordingID |-> nullInt(req.UpdatedAtRecordingID)]
        encoded == /\ FitsInt4(req.UserID)
                   /\ FitsInt4(req.CreatedAtRecordingID)
                   /\ FitsInt4(req.UpdatedAtRecordingID)
        ins == SqlCreateTodo(db, arg)
        scan == ScanTodo(ins.row)
    IN
    IF fault = "todo" \/ ~encoded
    THEN Reply(StatusClass(500), NoBody, Rollback(db, db), "rollback")
    ELSE IF ins.err # "nil" \/ scan.err # "nil"
    THEN Reply(StatusClass(500), NoBody, Rollback(db, ins.db), "rollback")
    ELSE
    LET actorID == IF req.ActorUserID = 0 THEN req.UserID ELSE req.ActorUserID
        hist == SqlCreateTodoHistory(ins.db,
                    httpHistoryArg(scan.todo, actorID, "create"), txStart)
    IN
    IF fault = "history" \/ ~FitsInt4(actorID)
    THEN Reply(StatusClass(500), NoBody, Rollback(db, ins.db), "rollback")
    ELSE IF hist.err # "nil"
    THEN Reply(StatusClass(500), NoBody, Rollback(db, hist.db), "rollback")
    ELSE IF fault = "Commit"
    THEN Reply(StatusClass(500), NoBody, Rollback(db, hist.db), "rollback")
    ELSE Committed(StatusClass(201), [kind |-> "todo", todo |-> scan.todo],
                   hist.db, hist.db.todo_history \ ins.db.todo_history)

handleUpdateTodo(db, txStart, req, fault) ==
    IF ~parseID(req.Id)
    THEN Reply(StatusClass(400), NoBody, db, "none")
    ELSE IF validateTodoInput(req.Name, req.Status) # "ok"
    THEN Reply(StatusClass(400), NoBody, db, "none")
    ELSE IF req.UserID = 0
    THEN Reply(StatusClass(400), NoBody, db, "none")
    ELSE IF fault = "BeginTx"
    THEN Reply(StatusClass(500), NoBody, db, "none")
    ELSE
    LET arg == [ID |-> req.Id, Name |-> req.Name, Desc |-> Text(req.Desc),
                Status |-> Text(req.Status), UserID |-> Int4(req.UserID),
                UpdatedAtRecordingID |-> nullInt(req.UpdatedAtRecordingID)]
        encoded == /\ FitsInt4(req.Id) /\ FitsInt4(req.UserID)
                   /\ FitsInt4(req.UpdatedAtRecordingID)
        upd == SqlUpdateTodo(db, arg)
    IN
    IF fault = "todo" \/ ~encoded
    THEN Reply(StatusClass(500), NoBody, Rollback(db, db), "rollback")
    ELSE IF upd.err = "ErrNoRows"
    THEN Reply(StatusClass(404), NoBody, Rollback(db, upd.db), "rollback")
    ELSE IF upd.err # "nil" \/ ScanTodo(upd.row).err # "nil"
    THEN Reply(StatusClass(500), NoBody, Rollback(db, upd.db), "rollback")
    ELSE
    LET t == ScanTodo(upd.row).todo
        actorID == IF req.ActorUserID = 0 THEN req.UserID ELSE req.ActorUserID
        hist == SqlCreateTodoHistory(upd.db,
                    httpHistoryArg(t, actorID, "update"), txStart)
    IN
    IF fault = "history" \/ ~FitsInt4(actorID)
    THEN Reply(StatusClass(500), NoBody, Rollback(db, upd.db), "rollback")
    ELSE IF hist.err # "nil"
    THEN Reply(StatusClass(500), NoBody, Rollback(db, hist.db), "rollback")
    ELSE IF fault = "Commit"
    THEN Reply(StatusClass(500), NoBody, Rollback(db, hist.db), "rollback")
    ELSE Committed(StatusClass(200), [kind |-> "todo", todo |-> t], hist.db,
                   hist.db.todo_history \ upd.db.todo_history)

\* No role check: the handler never looks at the caller.
handleDeleteTodo(db, txStart, req, fault) ==
    IF ~parseID(req.Id)
    THEN Reply(StatusClass(400), NoBody, db, "none")
    ELSE IF fault = "BeginTx"
    THEN Reply(StatusClass(500), NoBody, db, "none")
    ELSE
    LET get == SqlGetTodo(db, req.Id) IN
    IF fault = "todo" \/ ~FitsInt4(req.Id)
    THEN Reply(StatusClass(500), NoBody, Rollback(db, db), "rollback")
    ELSE IF get.err = "ErrNoRows"
    THEN Reply(StatusClass(404), NoBody, Rollback(db, db), "rollback")
    ELSE IF ScanTodo(get.row).err # "nil"
    THEN Reply(StatusClass(500), NoBody, Rollback(db, db), "rollback")
    ELSE
    LET t == ScanTodo(get.row).todo
        actorID == IF req.ActorUserID = 0 THEN t.UserID ELSE req.ActorUserID
        hist == SqlCreateTodoHistory(db,
                    httpHistoryArg(t, actorID, "delete"), txStart)
        del  == SqlDeleteTodo(hist.db, req.Id)
    IN
    IF fault = "history" \/ ~FitsInt4(actorID)
    THEN Reply(StatusClass(500), NoBody, Rollback(db, db), "rollback")
    ELSE IF hist.err # "nil"
    THEN Reply(StatusClass(500), NoBody, Rollback(db, hist.db), "rollback")
    ELSE IF fault = "delete"
    THEN Reply(StatusClass(500), NoBody, Rollback(db, hist.db), "rollback")
    ELSE IF fault = "Commit"
    THEN Reply(StatusClass(500), NoBody, Rollback(db, del.db), "rollback")
    ELSE Committed(StatusClass(204), NoBody, del.db,
                   hist.db.todo_history \ db.todo_history)

handleGetTodo(db, req) ==
    IF ~parseID(req.Id)
    THEN Reply(StatusClass(400), NoBody, db, "none")
    ELSE IF ~FitsInt4(req.Id)
    THEN Reply(StatusClass(500), NoBody, db, "none")
    ELSE LET get == SqlGetTodo(db, req.Id) IN
    IF get.err = "ErrNoRows"
    THEN Reply(StatusClass(404), NoBody, db, "none")
    ELSE IF ScanTodo(get.row).err # "nil"
    THEN Reply(StatusClass(500), NoBody, db, "none")
    ELSE Reply(StatusClass(200),
               [kind |-> "todo", todo |-> ScanTodo(get.row).todo], db, "none")

\* req.user_id is the query parameter: [set |-> FALSE] or [set |-> TRUE, v |-> n].
handleListTodos(db, req) ==
    IF ~req.user_id.set
    THEN Reply(StatusClass(400), NoBody, db, "none")
    ELSE IF ~FitsInt4(req.user_id.v)
    THEN Reply(StatusClass(500), NoBody, db, "none")
    ELSE LET rows == SqlListTodosByUser(db, req.user_id.v) IN
    IF \E i \in 1..Len(rows) : ScanTodo(rows[i]).err # "nil"
    THEN Reply(StatusClass(500), NoBody, db, "none")
    ELSE Reply(StatusClass(200),
               [kind |-> "todos",
                todos |-> [i \in 1..Len(rows) |-> ScanTodo(rows[i]).todo]],
               db, "none")

handleListTodoHistory(db, req) ==
    IF ~parseID(req.TodoId)
    THEN Reply(StatusClass(400), NoBody, db, "none")
    ELSE IF ~FitsInt4(req.TodoId)
    THEN Reply(StatusClass(500), NoBody, db, "none")
    ELSE LET rows == SqlListTodoHistory(db, req.TodoId) IN
    IF \E i \in 1..Len(rows) : ScanTodoHistory(rows[i]).err # "nil"
    THEN Reply(StatusClass(500), NoBody, db, "none")
    ELSE Reply(StatusClass(200),
               [kind |-> "history",
                history |-> [i \in 1..Len(rows) |-> ScanTodoHistory(rows[i]).item]],
               db, "none")

-----------------------------------------------------------------------------
(* Requests.  Each request set varies one field at a time around a base     *)
(* request that succeeds.                                                    *)

str_a == <<"a">>
str_d == <<"d">>

NameInputs == {EmptyString, <<" ">>, str_a, <<" ", "b">>}
DescInputs == {EmptyString, str_d}
\* Enum codes a request can carry: the declared ones and an undeclared one.
StatusCodes == TodoStatus \cup {"TODO_STATUS_CODE_6"}
StatusStrings ==
    CanonicalStatus \cup {EmptyString, s_pending, <<"D","o","n","e">>,
                          <<" ","d","o","n","e">>}
\* user 4 has no row.  Int32Modulus has the low bits of 0, Int32Modulus + 1
\* those of user 1.
OwnerIds == {0, 1, 2, 4, Int32Modulus, Int32Modulus + 1}
ActorIds == {0, 1, 4}
\* recording 2 has no row.
RecordingIds == {0, 1, 2}
\* Int32Modulus + 1 has the low bits of todo id 1.
TodoIds == {0, 1, 2, Int32Modulus + 1}
\* The token subjects that reach a handler: an admin, a user of another role,
\* a user with no role, and an id with no user row.
Callers == {1, 2, 3, 4}
\* The steps at which the store can fail a mutation.
Faults == {"BeginTx", "todo", "history", "Commit"}
DeleteFaults == Faults \cup {"delete"}

RpcBase ==
    [Name |-> str_a, Desc |-> str_d, Status |-> "TODO_STATUS_DONE", UserId |-> 2,
     CreatedAtRecordingId |-> 1, UpdatedAtRecordingId |-> 1, ActorUserId |-> 0]

RpcTodoMsgs ==
    {[RpcBase EXCEPT !.Name = x] : x \in NameInputs}
    \cup {[RpcBase EXCEPT !.Desc = x] : x \in DescInputs}
    \cup {[RpcBase EXCEPT !.Status = x] : x \in StatusCodes}
    \cup {[RpcBase EXCEPT !.UserId = x] : x \in OwnerIds}
    \cup {[RpcBase EXCEPT !.CreatedAtRecordingId = x] : x \in RecordingIds}
    \cup {[RpcBase EXCEPT !.UpdatedAtRecordingId = x] : x \in RecordingIds}
    \cup {[RpcBase EXCEPT !.ActorUserId = x] : x \in ActorIds}

HttpBase ==
    [Name |-> str_a, Desc |-> str_d, Status |-> s_done, UserID |-> 2,
     CreatedAtRecordingID |-> 1, UpdatedAtRecordingID |-> 1, ActorUserID |-> 0]

HttpTodoReqs ==
    {[HttpBase EXCEPT !.Name = x] : x \in NameInputs}
    \cup {[HttpBase EXCEPT !.Desc = x] : x \in DescInputs}
    \cup {[HttpBase EXCEPT !.Status = x] : x \in StatusStrings}
    \cup {[HttpBase EXCEPT !.UserID = x] : x \in OwnerIds}
    \cup {[HttpBase EXCEPT !.CreatedAtRecordingID = x] : x \in RecordingIds}
    \cup {[HttpBase EXCEPT !.UpdatedAtRecordingID = x] : x \in RecordingIds}
    \cup {[HttpBase EXCEPT !.ActorUserID = x] : x \in ActorIds}

\* A request with the store failing it at a step, or not at all: a fault is
\* one more field varied around the base request.
Faulted(base, reqs, faults) ==
    {<<r, "none">> : r \in reqs} \cup {<<base, f>> : f \in faults}

WithId(r, id) == [x \in DOMAIN r \cup {"Id"} |-> IF x = "Id" THEN id ELSE r[x]]

\* Update requests: the todo fields varied on todo 1, and the base request on
\* every id.
UpdateReqs(base, reqs) ==
    {WithId(r, 1) : r \in reqs} \cup {WithId(base, id) : id \in TodoIds}

\* Delete calls <<request, fault, caller>>: the id, the actor, the caller and
\* the fault varied one at a time around the admin's delete of todo 1.
DeleteCalls(base, actorField) ==
    {<<[base EXCEPT !.Id = id], "none", 1>> : id \in TodoIds}
    \cup {<<[base EXCEPT ![actorField] = a], "none", 1>> : a \in ActorIds}
    \cup {<<base, "none", u>> : u \in Callers}
    \cup {<<base, f, 1>> : f \in DeleteFaults}

\* Int32Modulus + 1 has the low bits of user 1 and of recording 1.
ListUserIds == OwnerIds \cup {Int32Modulus + 1}
ListRecordingIds == RecordingIds \cup {Int32Modulus + 1}

\* ListTodosRequest: user_id alone, recording_id alone (an optional field,
\* nil when unset), and both.
RpcListReqs ==
    {[UserId |-> u, RecordingId |-> [set |-> FALSE]] : u \in ListUserIds}
    \cup {[UserId |-> 0, RecordingId |-> [set |-> TRUE, v |-> x]] :
            x \in ListRecordingIds}
    \cup {[UserId |-> u, RecordingId |-> [set |-> TRUE, v |-> 1]] : u \in {1, 2}}

\* GET /api/todos with or without the user_id query parameter.
HttpListReqs ==
    {[user_id |-> [set |-> TRUE, v |-> u]] : u \in ListUserIds}
    \cup {[user_id |-> [set |-> FALSE]]}

-----------------------------------------------------------------------------
(* The state machine: requests are issued one after another, each served    *)
(* as a whole, and its response delivered before the next is issued.         *)

s_admin  == <<"a","d","m","i","n">>
s_tester == <<"t","e","s","t","e","r">>

\* A connection at rest in the pool: open, no transaction in progress.
PoolConn == [status |-> "pooled", tx |-> "I"]

\* The connection when the transaction's last statement (COMMIT, or the
\* deferred ROLLBACK) has been executed with the request's context: with a
\* live context the statement runs and leaves the connection idle; with a
\* context that is done Exec fails, and pgx closes a connection whose
\* transaction it could not end.
TxEnd(tx, ctxDone) ==
    IF tx = "none" THEN [status |-> "open", tx |-> "I"]
    ELSE IF ctxDone THEN [status |-> "closed", tx |-> "T"]
    ELSE [status |-> "open", tx |-> "I"]

\* A release that puts every connection back.
ReleaseAlways(c) == [c EXCEPT !.status = "pooled"]

\* pgxpool's Release: a connection that is closed or not idle is destroyed,
\* any other goes back to the pool.
Release(c) ==
    IF c.status = "closed" \/ c.tx # "I"
    THEN [c EXCEPT !.status = "destroyed"]
    ELSE [c EXCEPT !.status = "pooled"]

\* mapStatus is not at work.
NoDisplay == [word |-> EmptyString, status |-> EmptyString, category |-> "none"]

Idle == [op |-> "none", req |-> NoBody, fault |-> "none", userID |-> 0,
         code |-> "OK", tx |-> "none", body |-> NoBody, row |-> 0, log |-> {}]

\* The server at rest on the migrated schema.
InitStore ==
    /\ variant \in {"rpc", "http"}
    /\ user = [i \in {1, 2, 3} |->
                 [Role |-> CASE i = 1 -> Text(s_admin)
                             [] i = 2 -> Text(s_tester)
                             [] OTHER -> NullText]]
    /\ recording = {1}
    /\ audio_url = [i \in {1} |-> NullText]
    /\ todo = [i \in {} |-> NoBody]
    /\ todo_history = {}
    /\ todo_id_seq = 0
    /\ todo_history_id_seq = 0
    /\ now = 0
    /\ mutations = [i \in {} |-> 0]
    /\ issued = 0
    /\ resp = Idle
    /\ conn = PoolConn

\* No request has met the auth guard.
NoGuard == [seq |-> 0, path |-> "none", header |-> [kind |-> "missing"],
            ran |-> FALSE, code |-> "OK"]

\* The callers of the concurrent updates.
Workers == {1, 2}

\* No call in progress.
NoTxn == [pc |-> "idle", msg |-> NoBody, userID |-> 0, txStart |-> 0,
          row |-> NoBody, hist |-> NoBody, code |-> "none"]

\* The guard at rest (the clock stopped, no token issued) and no concurrent
\* call in progress.
InitGuard ==
    /\ txn = [p \in Workers |-> NoTxn]
    /\ writes = <<>>
    /\ tokenTTL = 1
    /\ clock = 0
    /\ tokens = {}
    /\ guard = NoGuard

Init ==
    /\ InitStore
    /\ display = NoDisplay
    /\ InitGuard

\* The todo row a committed mutation wrote or removed: the row the insert
\* created, or the row the statement's id parameter selected.
Target(op, req, r) ==
    IF op = "CreateTodo" THEN r.db.todo_id_seq
    ELSE IF variant = "rpc" THEN int32(req.Id) ELSE req.Id

\* The request is served: the store becomes what the handler left, a
\* transaction (if one was opened) took the next start time, and the
\* response is on its way to the caller.
ServeCtx(op, req, fault, userID, r, ctxDone) ==
    /\ resp = Idle
    /\ issued < MaxRequests
    /\ issued' = issued + 1
    /\ todo' = r.db.todo
    /\ todo_history' = r.db.todo_history
    /\ todo_id_seq' = r.db.todo_id_seq
    /\ todo_history_id_seq' = r.db.todo_history_id_seq
    /\ now' = IF r.tx = "none" THEN now ELSE now + 1
    /\ resp' = [op |-> op, req |-> req, fault |-> fault, userID |-> userID,
                code |-> r.code, tx |-> r.tx, body |-> r.body,
                row |-> IF r.tx = "commit" THEN Target(op, req, r) ELSE 0,
                log |-> r.log]
    /\ mutations' =
          IF r.tx = "commit"
          THEN LET t == Target(op, req, r)
               IN [i \in DOMAIN mutations \cup {t} |->
                      IF i = t
                      THEN (IF t \in DOMAIN mutations THEN mutations[t] ELSE 0) + 1
                      ELSE mutations[i]]
          ELSE mutations
    /\ recording' = r.db.recording
    /\ conn' = Release(TxEnd(r.tx, ctxDone))
    /\ UNCHANGED <<variant, user, audio_url, aux>>

\* A request whose context stays live to its end.
Serve(op, req, fault, userID, r) == ServeCtx(op, req, fault, userID, r, FALSE)

\* The caller receives the response.
Deliver ==
    /\ resp # Idle
    /\ resp' = Idle
    /\ UNCHANGED <<variant, user, recording, audio_url, todo, todo_history, todo_id_seq,
                   todo_history_id_seq, now, mutations, issued, aux, conn>>

RpcCreateTodo ==
    /\ variant = "rpc"
    /\ \E c \in Faulted(RpcBase, RpcTodoMsgs, Faults) :
          Serve("CreateTodo", c[1], c[2], 0,
                CreateTodo(Database, now + 1, c[1], c[2]))

RpcUpdateTodo ==
    /\ variant = "rpc"
    /\ \E c \in Faulted(WithId(RpcBase, 1), UpdateReqs(RpcBase, RpcTodoMsgs), Faults) :
          Serve("UpdateTodo", c[1], c[2], 0,
                UpdateTodo(Database, now + 1, c[1], c[2]))

RpcDeleteTodo ==
    /\ variant = "rpc"
    /\ \E c \in DeleteCalls([Id |-> 1, ActorUserId |-> 0], "ActorUserId") :
          Serve("DeleteTodo", c[1], c[2], c[3],
                DeleteTodo(Database, now + 1, c[1], c[2], c[3]))

RpcGetTodo ==
    /\ variant = "rpc"
    /\ \E id \in TodoIds :
          Serve("GetTodo", [Id |-> id], "none", 0, GetTodo(Database, [Id |-> id]))

RpcListTodos ==
    /\ variant = "rpc"
    /\ \E m \in RpcListReqs :
          Serve("ListTodos", m, "none", 0, ListTodos(Database, m))

RpcListTodoHistory ==
    /\ variant = "rpc"
    /\ \E id \in TodoIds :
          Serve("ListTodoHistory", [TodoId |-> id], "none", 0,
                ListTodoHistory(Database, [TodoId |-> id]))

\* Calls <<request, fault, caller>>: the id, the caller and the fault varied
\* one at a time around the admin's delete of recording 1.
DeleteRecordingCalls ==
    {<<[Id |-> id], "none", 1>> : id \in RecordingIds \ {0}}
    \cup {<<[Id |-> 1], "none", u>> : u \in Callers}
    \cup {<<[Id |-> 1], "delete", 1>>}

RpcDeleteRecording ==
    /\ variant = "rpc"
    /\ \E c \in DeleteRecordingCalls :
          Serve("DeleteRecording", c[1], c[2], c[3],
                DeleteRecording(Database, c[1], c[2], c[3]))

HttpCreateTodo ==
    /\ variant = "http"
    /\ \E c \in Faulted(HttpBase, HttpTodoReqs, Faults) :
          Serve("CreateTodo", c[1], c[2], 0,
                handleCreateTodo(Database, now + 1, c[1], c[2]))

HttpUpdateTodo ==
    /\ variant = "http"
    /\ \E c \in Faulted(WithId(HttpBase, 1), UpdateReqs(HttpBase, HttpTodoReqs), Faults) :
          Serve("UpdateTodo", c[1], c[2], 0,
                handleUpdateTodo(Database, now + 1, c[1], c[2]))

\* The caller's identity is recorded with the request although the handler
\* has no access to it.
HttpDeleteTodo ==
    /\ variant = "http"
    /\ \E c \in DeleteCalls([Id |-> 1, ActorUserID |-> 0], "ActorUserID") :
          Serve("DeleteTodo", c[1], c[2], c[3],
                handleDeleteTodo(Database, now + 1, c[1], c[2]))

HttpGetTodo ==
    /\ variant = "http"
    /\ \E id \in TodoIds :
          Serve("GetTodo", [Id |-> id], "none", 0,
                handleGetTodo(Database, [Id |-> id]))

HttpListTodos ==
    /\ variant = "http"
    /\ \E m \in HttpListReqs :
          Serve("ListTodos", m, "none", 0, handleListTodos(Database, m))

HttpListTodoHistory ==
    /\ variant = "http"
    /\ \E id \in TodoIds :
          Serve("ListTodoHistory", [TodoId |-> id], "none", 0,
                handleListTodoHistory(Database, [TodoId |-> id]))

Next ==
    \/ RpcCreateTodo
    \/ RpcUpdateTodo
    \/ RpcDeleteTodo
    \/ RpcGetTodo
    \/ RpcListTodos
    \/ RpcListTodoHistory
    \/ RpcDeleteRecording
    \/ HttpCreateTodo
    \/ HttpUpdateTodo
    \/ HttpDeleteTodo
    \/ HttpGetTodo
    \/ HttpListTodos
    \/ HttpListTodoHistory
    \/ Deliver

Spec == Init /\ [][Next]_vars

-----------------------------------------------------------------------------
(* Mutations whose request context ends (the caller disconnects, the deadline
   passes) while their transaction is open. *)

\* Where the context is done: when a statement of the transaction is
\* executed, when Commit is called (COMMIT is never sent), or while the COMMIT
\* that was sent is awaiting its reply.
CancelPoints == {"ctx:todo", "ctx:history", "ctx:delete", "ctx:Commit",
                 "ctx:CommitSent"}

\* The step whose call returns the context's error.
FailedStep(point) ==
    CASE point = "ctx:todo" -> "todo"
      [] point = "ctx:history" -> "history"
      [] point = "ctx:delete" -> "delete"
      [] OTHER -> "Commit"

\* The handler, whichever variant runs.
Mutation(op, req, fault, userID) ==
    IF variant = "rpc"
    THEN CASE op = "CreateTodo" -> CreateTodo(Database, now + 1, req, fault)
           [] op = "UpdateTodo" -> UpdateTodo(Database, now + 1, req, fault)
           [] OTHER -> DeleteTodo(Database, now + 1, req, fault, userID)
    ELSE CASE op = "CreateTodo" -> handleCreateTodo(Database, now + 1, req, fault)
           [] op = "UpdateTodo" -> handleUpdateTodo(Database, now + 1, req, fault)
           [] OTHER -> handleDeleteTodo(Database, now + 1, req, fault)

\* What the handler leaves when its context is done at the point.  A
\* statement or a Commit called with a done context fails and the handler
\* returns through its deferred Rollback.  A COMMIT already sent is out of
\* the client's hands: the store commits it or not, and Commit returns the
\* context's error either way.
CancelOutcomes(op, req, point, userID) ==
    LET failed == Mutation(op, req, FailedStep(point), userID)
        done == Mutation(op, req, "none", userID)
    IN IF point = "ctx:CommitSent" /\ done.tx = "commit"
       THEN {failed, [done EXCEPT !.code = "Internal", !.body = NoBody]}
       ELSE {failed}

\* The mutations that are cancelled: the base create, update and delete.
CancelCalls ==
    IF variant = "rpc"
    THEN {<<"CreateTodo", RpcBase, 0>>,
          <<"UpdateTodo", WithId(RpcBase, 1), 0>>,
          <<"DeleteTodo", [Id |-> 1, ActorUserId |-> 0], 1>>}
    ELSE {<<"CreateTodo", HttpBase, 0>>,
          <<"UpdateTodo", WithId(HttpBase, 1), 0>>,
          <<"DeleteTodo", [Id |-> 1, ActorUserID |-> 0], 1>>}

CancelledMutation ==
    \E c \in CancelCalls, point \in CancelPoints :
       /\ point = "ctx:delete" => c[1] = "DeleteTodo"
       /\ \E r \in CancelOutcomes(c[1], c[2], point, c[3]) :
             /\ r.tx # "none"
             /\ ServeCtx(c[1], c[2], point, c[3], r, TRUE)

NextCancel == Next \/ CancelledMutation

SpecCancel == Init /\ [][NextCancel]_vars

-----------------------------------------------------------------------------
(* Concurrent UpdateTodo calls on one todo, statement by statement.  Each
   call runs in its own transaction at the store's default isolation (READ
   COMMITTED, pgx.TxOptions{}): a statement sees what is committed when it
   runs, an UPDATE holds its row's lock until its transaction ends, and a
   second UPDATE of that row waits for the lock.  Sequence values are drawn
   outside the transactions. *)

\* The store before any request.
EmptyDatabase ==
    [user |-> [i \in {1, 2, 3} |->
                 [Role |-> CASE i = 1 -> Text(<<"a","d","m","i","n">>)
                             [] i = 2 -> Text(<<"t","e","s","t","e","r">>)
                             [] OTHER -> NullText]],
     recording |-> {1}, todo |-> [i \in {} |-> NoBody], todo_history |-> {},
     todo_id_seq |-> 0, todo_history_id_seq |-> 0]

\* The updates the two callers send for todo 1: one that changes nothing,
\* and ones that change the name, the status and the description.
ConcurrentUpdates ==
    {WithId(m, 1) :
        m \in {RpcBase, [RpcBase EXCEPT !.Name = <<"b">>],
               [RpcBase EXCEPT !.Status = "TODO_STATUS_BLOCKED"],
               [RpcBase EXCEPT !.Desc = EmptyString]}}

\* After one CreateTodo: todo 1 exists, with its create ledger row.
InitConc ==
    LET created == CreateTodo(EmptyDatabase, 1, RpcBase, "none").db IN
    /\ variant = "rpc"
    /\ user = created.user
    /\ recording = created.recording
    /\ audio_url = [i \in created.recording |-> NullText]
    /\ todo = created.todo
    /\ todo_history = created.todo_history
    /\ todo_id_seq = created.todo_id_seq
    /\ todo_history_id_seq = created.todo_history_id_seq
    /\ now = 1
    /\ mutations = [i \in {1} |-> 1]
    /\ issued = 1
    /\ resp = Idle
    /\ conn = PoolConn
    /\ display = NoDisplay
    /\ tokenTTL = 1
    /\ clock = 0
    /\ tokens = {}
    /\ guard = NoGuard
    /\ txn = [p \in Workers |-> NoTxn]
    /\ writes = <<>>

\* A row lock that is never held.
RowLockedNever(id, p) == FALSE

\* Another call's transaction has written the row and has not ended.
RowLocked(id, p) ==
    \E q \in Workers \ {p} :
       /\ txn[q].pc \in {"updated", "logged"}
       /\ txn[q].row.ID = id

\* UpdateTodo up to BeginTx: validation, then the transaction starts.
Begin(p) ==
    /\ txn[p].pc = "idle"
    /\ \E msg \in ConcurrentUpdates :
          IF \/ validateTodoInput(msg.Name, mapStatusToString(msg.Status)) # "ok"
             \/ msg.UserId = 0
          THEN /\ txn' = [txn EXCEPT ![p] = [@ EXCEPT !.pc = "done", !.msg = msg,
                                                      !.code = "InvalidArgument"]]
               /\ now' = now
          ELSE /\ txn' = [txn EXCEPT ![p] = [@ EXCEPT !.pc = "begun", !.msg = msg,
                                                      !.txStart = now + 1]]
               /\ now' = now + 1
    /\ UNCHANGED <<variant, user, recording, audio_url, todo, todo_history, todo_id_seq,
                   todo_history_id_seq, resp, mutations, issued, conn,
                   display, tokenTTL, clock, tokens, guard, writes>>

\* qtx.UpdateTodo: waits for the row's lock, then updates the committed row.
Update(p) ==
    /\ txn[p].pc = "begun"
    /\ ~RowLocked(int32(txn[p].msg.Id), p)
    /\ LET upd == SqlUpdateTodo(Database, UpdateTodoParams(txn[p].msg)) IN
       IF upd.err = "nil"
       THEN /\ txn' = [txn EXCEPT ![p] = [@ EXCEPT !.pc = "updated",
                                                   !.row = upd.row]]
            /\ writes' = Append(writes, p)
       ELSE /\ txn' = [txn EXCEPT ![p] =
                         [@ EXCEPT !.pc = "done",
                                   !.code = IF upd.err = "ErrNoRows"
                                            THEN "NotFound" ELSE "Internal"]]
            /\ writes' = writes
    /\ UNCHANGED <<variant, user, recording, audio_url, todo, todo_history, todo_id_seq,
                   todo_history_id_seq, now, resp, mutations, issued, conn,
                   display, tokenTTL, clock, tokens, guard>>

\* qtx.CreateTodoHistory: the ledger row of the updated row, in the
\* transaction's own view of the store.
Log(p) ==
    /\ txn[p].pc = "updated"
    /\ LET view == [Database EXCEPT !.todo[txn[p].row.ID] = txn[p].row]
           actorID == txn[p].msg.UserId
           hist == SqlCreateTodoHistory(view,
                       historyArg(txn[p].row, Int4(int32(actorID)), "update"),
                       txn[p].txStart)
       IN /\ todo_history_id_seq' = hist.db.todo_history_id_seq
          /\ IF hist.err = "nil"
             THEN txn' = [txn EXCEPT ![p] =
                            [@ EXCEPT !.pc = "logged",
                                      !.hist = CHOOSE h \in hist.db.todo_history :
                                                  h \notin view.todo_history]]
             ELSE txn' = [txn EXCEPT ![p] = [@ EXCEPT !.pc = "done",
                                                       !.row = NoBody,
                                                       !.code = "Internal"]]
    /\ UNCHANGED <<variant, user, recording, audio_url, todo, todo_history, todo_id_seq,
                   now, resp, mutations, issued, conn,
                   display, tokenTTL, clock, tokens, guard, writes>>

\* tx.Commit: the transaction's writes become the committed rows.
Commit(p) ==
    /\ txn[p].pc = "logged"
    /\ todo' = [todo EXCEPT ![txn[p].row.ID] = txn[p].row]
    /\ todo_history' = todo_history \cup {txn[p].hist}
    /\ mutations' = [mutations EXCEPT ![txn[p].row.ID] = @ + 1]
    /\ txn' = [txn EXCEPT ![p] = [@ EXCEPT !.pc = "done", !.code = "OK"]]
    /\ UNCHANGED <<variant, user, recording, audio_url, todo_id_seq, todo_history_id_seq,
                   now, resp, issued, conn,
                   display, tokenTTL, clock, tokens, guard, writes>>

NextConc == \E p \in Workers : Begin(p) \/ Update(p) \/ Log(p) \/ Commit(p)

SpecConc == InitConc /\ [][NextConc]_vars

-----------------------------------------------------------------------------
(* Concurrent DeleteTodo calls (RPC variant), step by step, under            *)
(* PostgreSQL's READ COMMITTED: a SELECT takes no lock and sees the          *)
(* committed rows; the ledger INSERT's foreign-key check takes a key-share   *)
(* lock on the todo row and waits for an uncommitted DELETE of it; the       *)
(* DELETE waits for the other transactions' key-share locks.                 *)

\* Calls <<request, caller>>: the admin's delete of todo 1, of an id that
\* narrows to 1 and of a missing todo, and a tester's delete of todo 1.
ConcurrentDeletes ==
    {<<[Id |-> id, ActorUserId |-> 0], 1>> : id \in {1, 2, Int32Modulus + 1}}
    \cup {<<[Id |-> 1, ActorUserId |-> 0], 2>>}

\* Another call's transaction holds a key-share lock on the row: it has
\* inserted a ledger row referring to it and has not ended.
KeyShared(id, p) ==
    \E q \in Workers \ {p} : txn[q].pc = "logged" /\ txn[q].row.ID = id

\* Another call's transaction has deleted the row and has not ended.
DeletePending(id, p) ==
    \E q \in Workers \ {p} : txn[q].pc = "deleted" /\ txn[q].row.ID = id

\* DeleteTodo up to BeginTx: the caller's role is checked, then the
\* transaction starts.
DeleteBegin(p) ==
    /\ txn[p].pc = "idle"
    /\ \E c \in ConcurrentDeletes :
          LET u == GetUser(Database, int32(c[2])) IN
          IF u.err # "nil"
          THEN /\ txn' = [txn EXCEPT ![p] = [@ EXCEPT !.pc = "done", !.msg = c[1],
                                                      !.userID = c[2],
                                                      !.code = "Internal"]]
               /\ now' = now
          ELSE IF u.row.Role.String # <<"a","d","m","i","n">>
          THEN /\ txn' = [txn EXCEPT ![p] = [@ EXCEPT !.pc = "done", !.msg = c[1],
                                                      !.userID = c[2],
                                                      !.code = "PermissionDenied"]]
               /\ now' = now
          ELSE /\ txn' = [txn EXCEPT ![p] = [@ EXCEPT !.pc = "begun", !.msg = c[1],
                                                      !.userID = c[2],
                                                      !.txStart = now + 1]]
               /\ now' = now + 1
    /\ UNCHANGED <<variant, user, recording, audio_url, todo, todo_history, todo_id_seq,
                   todo_history_id_seq, resp, mutations, issued, conn,
                   display, tokenTTL, clock, tokens, guard, writes>>

\* qtx.GetTodo: reads the committed row, whatever other transactions have
\* pending.
DeleteGet(p) ==
    /\ txn[p].pc = "begun"
    /\ LET get == SqlGetTodo(Database, int32(txn[p].msg.Id)) IN
       IF get.err = "ErrNoRows"
       THEN txn' = [txn EXCEPT ![p] = [@ EXCEPT !.pc = "done", !.code = "NotFound"]]
       ELSE txn' = [txn EXCEPT ![p] = [@ EXCEPT !.pc = "read", !.row = get.row]]
    /\ UNCHANGED <<variant, user, recording, audio_url, todo, todo_history, todo_id_seq,
                   todo_history_id_seq, now, resp, mutations, issued, conn,
                   display, tokenTTL, clock, tokens, guard, writes>>

\* qtx.CreateTodoHistory: the foreign-key check waits for a pending DELETE
\* of the todo, and fails if the todo is gone by then.
DeleteLog(p) ==
    /\ txn[p].pc = "read"
    /\ ~DeletePending(txn[p].row.ID, p)
    /\ LET actorID == txn[p].row.UserID.Int32
           hist == SqlCreateTodoHistory(Database,
                       historyArg(txn[p].row, Int4(actorID), "delete"),
                       txn[p].txStart)
       IN /\ todo_history_id_seq' = hist.db.todo_history_id_seq
          /\ IF hist.err = "nil"
             THEN txn' = [txn EXCEPT ![p] =
                            [@ EXCEPT !.pc = "logged",
                                      !.hist = CHOOSE h \in hist.db.todo_history :
                                                  h \notin todo_history]]
             ELSE txn' = [txn EXCEPT ![p] = [@ EXCEPT !.pc = "done",
                                                       !.code = "Internal"]]
    /\ UNCHANGED <<variant, user, recording, audio_url, todo, todo_history, todo_id_seq,
                   now, resp, mutations, issued, conn,
                   display, tokenTTL, clock, tokens, guard, writes>>

\* qtx.DeleteTodo: waits for the other transactions' key-share locks on
\* the row.
DeleteRow(p) ==
    /\ txn[p].pc = "logged"
    /\ ~KeyShared(txn[p].row.ID, p)
    /\ txn' = [txn EXCEPT ![p] = [@ EXCEPT !.pc = "deleted"]]
    /\ UNCHANGED <<variant, user, recording, audio_url, todo, todo_history, todo_id_seq,
                   todo_history_id_seq, now, resp, mutations, issued, conn,
                   display, tokenTTL, clock, tokens, guard, writes>>

\* Both transactions hold a key-share lock on the row and each DELETE waits
\* for the other's: the store detects the deadlock and aborts one of them,
\* whose qtx.DeleteTodo returns the error.
DeleteDeadlock(p) ==
    /\ txn[p].pc = "logged"
    /\ KeyShared(txn[p].row.ID, p)
    /\ txn' = [txn EXCEPT ![p] = [@ EXCEPT !.pc = "done", !.hist = NoBody,
                                           !.code = "Internal"]]
    /\ UNCHANGED <<variant, user, recording, audio_url, todo, todo_history, todo_id_seq,
                   todo_history_id_seq, now, resp, mutations, issued, conn,
                   display, tokenTTL, clock, tokens, guard, writes>>

\* tx.Commit: the ledger row and the DELETE, with its cascade, become the
\* committed state.
DeleteCommit(p) ==
    /\ txn[p].pc = "deleted"
    /\ LET view == [Database EXCEPT
                       !.todo_history = todo_history \cup {txn[p].hist}]
           del == SqlDeleteTodo(view, int32(txn[p].msg.Id))
       IN /\ todo' = del.db.todo
          /\ todo_history' = del.db.todo_history
    /\ mutations' = [mutations EXCEPT ![txn[p].row.ID] = @ + 1]
    /\ txn' = [txn EXCEPT ![p] = [@ EXCEPT !.pc = "done", !.code = "OK"]]
    /\ UNCHANGED <<variant, user, recording, audio_url, todo_id_seq, todo_history_id_seq,
                   now, resp, issued, conn,
                   display, tokenTTL, clock, tokens, guard, writes>>

NextDel ==
    \E p \in Workers :
       \/ DeleteBegin(p)
       \/ DeleteGet(p)
       \/ DeleteLog(p)
       \/ DeleteRow(p)
       \/ DeleteDeadlock(p)
       \/ DeleteCommit(p)

SpecDel == InitConc /\ [][NextDel]_vars

-----------------------------------------------------------------------------
(* mapStatus on its own: the status column holds any text (schema.sql puts no
   check on it), and the read path maps whatever it finds. *)

\* The words a status column may spell: the canonical statuses, the legacy
\* tokens, and words that are neither.
s_todo == <<"t","o","d","o">>
s_complete == <<"c","o","m","p","l","e","t","e">>
s_inprogress == <<"i","n","p","r","o","g","r","e","s","s">>
s_in_progress_dash == <<"i","n","-","p","r","o","g","r","e","s","s">>
s_in_progress_2sp == <<"i","n"," "," ","p","r","o","g","r","e","s","s">>
s_not_started_sp == <<"n","o","t"," ","s","t","a","r","t","e","d">>
s_donee == <<"d","o","n","e","e">>

StatusWords ==
    CanonicalStatus
    \cup {s_pending, s_in_progress, s_in_progress_sp, s_completed}
    \cup {EmptyString, s_todo, s_complete, s_inprogress, s_in_progress_dash,
          s_in_progress_2sp, s_not_started_sp, s_donee}

UpperChar(c) ==
    IF \E i \in 1..Len(LowerCase) : LowerCase[i] = c
    THEN UpperCase[CHOOSE i \in 1..Len(LowerCase) : LowerCase[i] = c]
    ELSE c

\* The spellings of a word that differ from it in letter case only.
CaseForms(w) ==
    {w,
     [i \in 1..Len(w) |-> UpperChar(w[i])],
     [i \in 1..Len(w) |-> IF i = 1 THEN UpperChar(w[i]) ELSE w[i]],
     [i \in 1..Len(w) |-> IF i % 2 = 0 THEN UpperChar(w[i]) ELSE w[i]]}

\* A spelling with white space around it.
SpaceForms(w) ==
    {w, <<" ">> \o w, w \o <<" ">>, <<" ">> \o w \o <<" ">>,
     <<"\t">> \o w \o <<"\n">>, <<" ", " ">> \o w \o <<"\n", " ">>}

InitMap ==
    /\ InitStore
    /\ InitGuard
    /\ variant = "rpc"
    /\ \E w \in StatusWords : \E c \in CaseForms(w) : \E x \in SpaceForms(c) :
          display = [word |-> w, status |-> x, category |-> "none"]

\* The read handlers call mapStatus on the stored status of each row.
MapStatus ==
    /\ display.category = "none"
    /\ display' = [display EXCEPT !.category = mapStatus(display.status)]
    /\ UNCHANGED <<variant, user, recording, audio_url, todo, todo_history, todo_id_seq,
                   todo_history_id_seq, now, resp, mutations, issued,
                   tokenTTL, clock, tokens, guard, conn,
                   txn, writes>>

NextMap == MapStatus

SpecMap == InitMap /\ [][NextMap]_vars

-----------------------------------------------------------------------------
(* The auth guard: Routes, authMiddleware, handleLogin and issueToken, with
   the clock running.  A token is its header's alg, its claims and its
   signature; an HMAC signature is the record of what was signed and with
   which key, so it matches only the very claims it was made for. *)

\* Requests that meet the guard in one behaviour.
MaxGuarded == 3
\* Tokens issued in one behaviour.
MaxTokens == 1
\* The clock stops here.
MaxClock == 6
TicksPerSecond == 2
\* The TTLs a server may be configured with, in seconds (scaled from hours).
TokenTTLs == {1, 2}

jwtSecret == "secret"
SigningMethodHMAC == {"HS256", "HS384", "HS512"}

\* jwt.NewNumericDate: a time truncated to whole seconds.
NewNumericDate(t) == t \div TicksPerSecond

Sign(alg, key, sub, exp) == [alg |-> alg, key |-> key, sub |-> sub, exp |-> exp]

issueToken(userID, t, ttl) ==
    LET exp == NewNumericDate(t + ttl * TicksPerSecond) IN
    [alg |-> "HS256", sub |-> userID, exp |-> exp,
     sig |-> Sign("HS256", jwtSecret, userID, exp)]

\* The key function given to jwt.Parse: the server's secret, for HMAC only.
keyfunc(tok) ==
    IF tok.alg \in SigningMethodHMAC
    THEN [err |-> "nil", key |-> jwtSecret]
    ELSE [err |-> "unexpected signing method", key |-> ""]

\* A signature check that accepts every signature.
SignatureAny(tok, key) == TRUE

\* The method's Verify: the signature is the one this key makes for this
\* header and these claims.
SignatureValid(tok, key) == tok.sig = Sign(tok.alg, key, tok.sub, tok.exp)

\* An expiry check that never finds a token expired.
UnexpiredAlways(tok, t) == TRUE

\* The validator's exp check (no leeway): the time is before exp.
Unexpired(tok, t) == t < tok.exp * TicksPerSecond

\* jwt.Parse(tokenStr, keyfunc): err == nil and token.Valid.
Parse(tok, t) ==
    LET k == keyfunc(tok) IN
    /\ k.err = "nil"
    /\ SignatureValid(tok, k.key)
    /\ Unexpired(tok, t)

ExemptPaths == {"/healthz", "/api/login"}
ServicePaths == {"RecordingsService", "TodosService", "UsersService"}

\* Whether the guard lets the request through to its handler, and the user
\* id it resolved.
authMiddleware(path, header, t) ==
    IF path \in ExemptPaths
    THEN [pass |-> TRUE, code |-> "OK", userID |-> 0]
    ELSE IF header.kind \in {"missing", "other scheme"}
    THEN [pass |-> FALSE, code |-> StatusClass(401), userID |-> 0]
    ELSE IF header.kind = "blank"
    THEN [pass |-> FALSE, code |-> StatusClass(401), userID |-> 0]
    ELSE IF ~Parse(header.token, t)
    THEN [pass |-> FALSE, code |-> StatusClass(401), userID |-> 0]
    ELSE [pass |-> TRUE, code |-> "OK", userID |-> header.token.sub]

\* Routes: the handler behind each path.  Of each service the operation that
\* writes most: CreateTodo, DeleteRecording (the plain-HTTP variant only
\* reads recordings), and the users listing.
Handler(path, userID) ==
    CASE path = "TodosService" ->
            IF variant = "rpc"
            THEN CreateTodo(Database, now + 1, RpcBase, "none")
            ELSE handleCreateTodo(Database, now + 1, HttpBase, "none")
      [] path = "RecordingsService" ->
            IF variant = "rpc"
            THEN DeleteRecording(Database, [Id |-> 1], "none", userID)
            ELSE Reply(StatusClass(IF 1 \in recording THEN 200 ELSE 404),
                       NoBody, Database, "none")
      [] OTHER -> Reply("OK", NoBody, Database, "none")

\* Tokens login never issued: signed with another key, "signed" with a
\* method that is not HMAC (the secret used as its key, or alg none), and an
\* issued token with its expiry pushed out under the old signature.
Forged ==
    {[alg |-> "HS256", sub |-> 1, exp |-> MaxClock,
      sig |-> Sign("HS256", "guess", 1, MaxClock)],
     [alg |-> "RS256", sub |-> 1, exp |-> MaxClock,
      sig |-> Sign("RS256", jwtSecret, 1, MaxClock)],
     [alg |-> "none", sub |-> 1, exp |-> MaxClock,
      sig |-> Sign("none", "", 1, MaxClock)]}
    \cup {[i.tok EXCEPT !.exp = i.tok.exp + 1] : i \in tokens}

\* The Authorization headers a request may carry.
Headers ==
    {[kind |-> k] : k \in {"missing", "other scheme", "blank"}}
    \cup {[kind |-> "bearer", token |-> tok] :
            tok \in {i.tok : i \in tokens} \cup Forged}

InitAuth ==
    /\ InitStore
    /\ display = NoDisplay
    /\ txn = [p \in Workers |-> NoTxn]
    /\ writes = <<>>
    /\ tokenTTL \in TokenTTLs
    /\ clock = 0
    /\ tokens = {}
    /\ guard = NoGuard

Tick ==
    /\ clock < MaxClock
    /\ clock' = clock + 1
    /\ UNCHANGED <<variant, user, recording, audio_url, todo, todo_history, todo_id_seq,
                   todo_history_id_seq, now, resp, mutations, issued,
                   display, tokenTTL, tokens, guard, conn,
                   txn, writes>>

\* A request at an exempt path: the liveness probe, or a login with the right
\* or a wrong password.  A successful login issues a token.
Unguarded ==
    /\ guard.seq < MaxGuarded
    /\ \E path \in ExemptPaths, h \in Headers, u \in DOMAIN user, ok \in BOOLEAN :
          LET a == authMiddleware(path, h, clock)
              granted == path = "/api/login" /\ ok
          IN /\ a.pass
             /\ granted => Cardinality(tokens) < MaxTokens
             /\ tokens' = IF granted
                          THEN tokens \cup {[tok |-> issueToken(u, clock, tokenTTL),
                                             at |-> clock]}
                          ELSE tokens
             /\ guard' = [seq |-> guard.seq + 1, path |-> path, header |-> h,
                          ran |-> TRUE,
                          code |-> IF path = "/api/login" /\ ~ok
                                   THEN StatusClass(401) ELSE "OK"]
    /\ UNCHANGED <<variant, user, recording, audio_url, todo, todo_history, todo_id_seq,
                   todo_history_id_seq, now, resp, mutations, issued,
                   display, tokenTTL, clock, conn,
                   txn, writes>>

\* A request at a service path: the guard, and behind it the handler.
Guarded ==
    /\ guard.seq < MaxGuarded
    /\ \E path \in ServicePaths, h \in Headers :
          LET a == authMiddleware(path, h, clock)
              r == IF a.pass THEN Handler(path, a.userID)
                   ELSE Reply(a.code, NoBody, Database, "none")
          IN /\ guard' = [seq |-> guard.seq + 1, path |-> path, header |-> h,
                          ran |-> a.pass, code |-> r.code]
             /\ todo' = r.db.todo
             /\ todo_history' = r.db.todo_history
             /\ todo_id_seq' = r.db.todo_id_seq
             /\ todo_history_id_seq' = r.db.todo_history_id_seq
             /\ recording' = r.db.recording
             /\ now' = IF r.tx = "none" THEN now ELSE now + 1
    /\ UNCHANGED <<variant, user, audio_url, resp, mutations, issued,
                   display, tokenTTL, clock, tokens, conn,
                   txn, writes>>

NextAuth == Tick \/ Unguarded \/ Guarded

SpecAuth == InitAuth /\ [][NextAuth]_vars

-----------------------------------------------------------------------------
(* The recordings service: rows arrive in the recording table from outside  *)
(* the server (the recorder, the tests' insertRecording) and are read by    *)
(* ListRecordings and GetRecording.  Of a row's columns the id and the      *)
(* audio_url are modelled; the order of a list is left out.                 *)

MaxRecordings == 4

str_u == <<"u">>
\* audio_url text NULL: absent, empty, or a URL.
AudioUrls == {NullText, Text(EmptyString), Text(str_u)}
\* Int32Modulus + 1 has the low bits of recording 1.
GetRecordingIds == {0, 1, 2, Int32Modulus + 1}

\* The recording table as the queries see it.
RecordingTable == [i \in recording |-> [ID |-> i, AudioUrl |-> audio_url[i]]]

\* -- name: ListRecordings :many
SqlListRecordings(tbl) == RowsOf(tbl)

\* -- name: GetRecording :one    ... WHERE r.id = $1
SqlGetRecording(tbl, id) ==
    IF id \in DOMAIN tbl THEN [err |-> "nil", row |-> tbl[id]]
    ELSE [err |-> "ErrNoRows", row |-> NoBody]

\* The secretaryv1.Recording message built from a row.
RecordingMessage(row) ==
    [Id |-> row.ID, AudioUrl |-> row.AudioUrl.String,
     HasAudio |-> row.AudioUrl.String # EmptyString]

ListRecordings(tbl) ==
    Reply("OK", [kind |-> "recordings",
                 recordings |-> {RecordingMessage(r) : r \in SqlListRecordings(tbl)}],
          Database, "none")

GetRecording(tbl, msg) ==
    LET got == SqlGetRecording(tbl, int32(msg.Id)) IN
    IF got.err = "ErrNoRows" THEN Reply("NotFound", NoBody, Database, "none")
    ELSE Reply("OK", [kind |-> "recordings",
                      recordings |-> {RecordingMessage(got.row)}],
               Database, "none")

\* rows.Scan of a recording row into the Go struct Recording, whose AudioURL
\* is a plain string: the driver refuses to scan NULL into it.
ScanRecording(row) ==
    IF row.AudioUrl.Valid
    THEN [err |-> "nil",
          rec |-> [Id |-> row.ID, AudioUrl |-> row.AudioUrl.String,
                   HasAudio |-> row.AudioUrl.String # EmptyString]]
    ELSE [err |-> "scan", rec |-> NoBody]

handleRecordings(tbl) ==
    LET rows == SqlListRecordings(tbl) IN
    IF \E r \in rows : ScanRecording(r).err # "nil"
    THEN Reply(StatusClass(500), NoBody, Database, "none")
    ELSE Reply(StatusClass(200),
               [kind |-> "recordings",
                recordings |-> {ScanRecording(r).rec : r \in rows}],
               Database, "none")

handleRecordingByID(tbl, req) ==
    IF ~parseID(req.Id) THEN Reply(StatusClass(400), NoBody, Database, "none")
    ELSE IF ~FitsInt4(req.Id) THEN Reply(StatusClass(500), NoBody, Database, "none")
    ELSE LET got == SqlGetRecording(tbl, req.Id) IN
    IF got.err = "ErrNoRows" THEN Reply(StatusClass(404), NoBody, Database, "none")
    ELSE IF ScanRecording(got.row).err # "nil"
    THEN Reply(StatusClass(500), NoBody, Database, "none")
    ELSE Reply(StatusClass(200),
               [kind |-> "recordings",
                recordings |-> {ScanRecording(got.row).rec}],
               Database, "none")

\* INSERT INTO recording (...) RETURNING id: the identity column hands out the
\* next id; a row inserted without an audio URL has it NULL.
InsertRecording ==
    /\ resp = Idle
    /\ Cardinality(DOMAIN audio_url) < MaxRecordings
    /\ \E url \in AudioUrls :
          LET id == Cardinality(DOMAIN audio_url) + 1 IN
          /\ recording' = recording \cup {id}
          /\ audio_url' = [i \in DOMAIN audio_url \cup {id} |->
                              IF i = id THEN url ELSE audio_url[i]]
    /\ UNCHANGED <<variant, user, todo, todo_history, todo_id_seq,
                   todo_history_id_seq, now, resp, mutations, issued, aux, conn>>

\* A read of the recordings service is served.
ServeRecordings(op, req, r) ==
    /\ resp = Idle
    /\ resp' = [op |-> op, req |-> req, fault |-> "none", userID |-> 0,
                code |-> r.code, tx |-> r.tx, body |-> r.body, row |-> 0,
                log |-> {}]
    /\ UNCHANGED <<variant, user, recording, audio_url, todo, todo_history,
                   todo_id_seq, todo_history_id_seq, now, mutations, issued,
                   aux, conn>>

RpcListRecordings ==
    /\ variant = "rpc"
    /\ ServeRecordings("ListRecordings", NoBody, ListRecordings(RecordingTable))

RpcGetRecording ==
    /\ variant = "rpc"
    /\ \E id \in GetRecordingIds :
          ServeRecordings("GetRecording", [Id |-> id],
                          GetRecording(RecordingTable, [Id |-> id]))

HttpListRecordings ==
    /\ variant = "http"
    /\ ServeRecordings("ListRecordings", NoBody, handleRecordings(RecordingTable))

HttpGetRecording ==
    /\ variant = "http"
    /\ \E id \in GetRecordingIds :
          ServeRecordings("GetRecording", [Id |-> id],
                          handleRecordingByID(RecordingTable, [Id |-> id]))

NextRec ==
    \/ InsertRecording
    \/ RpcListRecordings
    \/ RpcGetRecording
    \/ HttpListRecordings
    \/ HttpGetRecording
    \/ Deliver

SpecRec == Init /\ [][NextRec]_vars

-----------------------------------------------------------------------------
(* Vocabulary of the properties *)

\* This step served a request.
Served == resp = Idle /\ resp' # Idle

MutationOps == {"CreateTodo", "UpdateTodo", "DeleteTodo"}

ChangeTypeOf(op) ==
    CASE op = "CreateTodo" -> "create"
      [] op = "UpdateTodo" -> "update"
      [] OTHER -> "delete"

\* The request's fields, whichever variant's names they carry.
ReqOwner(req) == IF variant = "rpc" THEN req.UserId ELSE req.UserID
ReqActor(req) == IF variant = "rpc" THEN req.ActorUserId ELSE req.ActorUserID
ItemId(m) == IF variant = "rpc" THEN m.Id ELSE m.ID

\* The canonical status a reported status value names.
ReportedStatus(v) ==
    IF variant = "http" THEN v
    ELSE CASE v = "TODO_STATUS_NOT_STARTED" -> s_not_started
           [] v = "TODO_STATUS_PARTIAL" -> s_partial
           [] v = "TODO_STATUS_DONE" -> s_done
           [] v = "TODO_STATUS_BLOCKED" -> s_blocked
           [] v = "TODO_STATUS_SKIPPED" -> s_skipped
           [] OTHER -> EmptyString

\* The read operations of the running variant, applied to the current store.
ApiGetTodo(t) ==
    IF variant = "rpc" THEN GetTodo(Database, [Id |-> t])
    ELSE handleGetTodo(Database, [Id |-> t])

ApiListTodoHistory(t) ==
    IF variant = "rpc" THEN ListTodoHistory(Database, [TodoId |-> t])
    ELSE handleListTodoHistory(Database, [TodoId |-> t])

\* The caller's stored role is not "admin" (a NULL role is not "admin").
NonAdmin(userID) ==
    /\ userID \in DOMAIN user
    /\ ~(user[userID].Role.Valid /\ user[userID].Role.String = s_admin)

IsAdmin(userID) ==
    /\ userID \in DOMAIN user
    /\ user[userID].Role.Valid
    /\ user[userID].Role.String = s_admin

\* A create/update request the validation must refuse.
InvalidInput(req) ==
    \/ TrimSpace(req.Name) = EmptyString
    \/ ReportedStatus(req.Status) \notin CanonicalStatus
    \/ ReqOwner(req) = 0

-----------------------------------------------------------------------------
(* Properties *)

\* C1: every successful CreateTodo, UpdateTodo or DeleteTodo leaves exactly one
\* new todo_history row, for the todo it changed and of its change kind, in the
\* state its transaction committed; the todo table never changes without such
\* a row, and no ledger row appears without a committed mutation.
LedgerMatchesMutation ==
    [][Served =>
        LET new == todo_history' \ todo_history IN
        /\ (resp'.op \in MutationOps /\ resp'.code = "OK") =>
              \E h \in new :
                 /\ new = {h}
                 /\ h.TodoID = resp'.row
                 /\ h.ChangeType = ChangeTypeOf(resp'.op)
        /\ todo' # todo => new # {}
        /\ new # {} => (resp'.op \in MutationOps /\ resp'.code = "OK")]_vars

NonAdminDeleteDenied ==
    [][(Served /\ resp'.op = "DeleteTodo" /\ NonAdmin(resp'.userID)
               /\ resp'.req.Id \in DOMAIN todo)
          => /\ resp'.code = "PermissionDenied"
             /\ todo' = todo
             /\ todo_history' = todo_history]_vars

\* C4: CreateTodo and UpdateTodo answer InvalidArgument, without opening a
\* transaction, to every request whose name is empty after trimming, whose
\* status is not canonical or whose owner id is zero, and leave the tables
\* (and the sequences) as they were.
InvalidInputRejected ==
    [][(Served /\ resp'.op \in {"CreateTodo", "UpdateTodo"}
               /\ InvalidInput(resp'.req))
          => /\ resp'.code = "InvalidArgument"
             /\ resp'.tx = "none"
             /\ now' = now
             /\ todo' = todo
             /\ todo_history' = todo_history
             /\ todo_id_seq' = todo_id_seq
             /\ todo_history_id_seq' = todo_history_id_seq]_vars

\* An update of an existing todo refused for its blank name.
InvalidInputWitness ==
    /\ resp.op = "UpdateTodo"
    /\ resp.code = "InvalidArgument"
    /\ resp.req.Name = <<" ">>
    /\ resp.req.Id \in DOMAIN todo

\* C5: the status of every todo row and of every ledger snapshot is one of
\* not_started, partial, done, blocked, skipped.
StoredStatusCanonical ==
    /\ \A t \in DOMAIN todo :
          todo[t].Status.Valid /\ todo[t].Status.String \in CanonicalStatus
    /\ \A h \in todo_history :
          h.Status.Valid /\ h.Status.String \in CanonicalStatus

\* A todo created and then updated to another status, both snapshots stored.
StoredStatusWitness ==
    \E t \in DOMAIN todo :
       /\ todo[t].Status.String = s_blocked
       /\ \E h \in todo_history :
             h.TodoID = t /\ h.ChangeType = "create" /\ h.Status.String = s_done
       /\ \E h \in todo_history :
             h.TodoID = t /\ h.ChangeType = "update" /\ h.Status.String = s_blocked

\* C6: the status a successful CreateTodo or UpdateTodo returns is the status
\* the request carried, and the status GetTodo, ListTodos and ListTodoHistory
\* report for a row names the status stored in that row.
StatusRoundTrips ==
    /\ (resp.op \in {"CreateTodo", "UpdateTodo"} /\ resp.code = "OK") =>
          resp.body.todo.Status = resp.req.Status
    /\ (resp.op = "GetTodo" /\ resp.code = "OK") =>
          ReportedStatus(resp.body.todo.Status)
             = todo[ItemId(resp.body.todo)].Status.String
    /\ (resp.op = "ListTodos" /\ resp.code = "OK") =>
          \A i \in 1..Len(resp.body.todos) :
             ReportedStatus(resp.body.todos[i].Status)
                = todo[ItemId(resp.body.todos[i])].Status.String
    /\ (resp.op = "ListTodoHistory" /\ resp.code = "OK") =>
          \A i \in 1..Len(resp.body.history) :
             \E h \in todo_history :
                /\ h.ID = ItemId(resp.body.history[i])
                /\ ReportedStatus(resp.body.history[i].Status) = h.Status.String

\* C7: after N committed mutations of one todo id, issued one after another,
\* ListTodoHistory for that id returns exactly N rows, the latest mutation's
\* row first.
HistoryCountsMutations ==
    \A t \in DOMAIN mutations :
       LET r == ApiListTodoHistory(t) IN
       /\ r.code = "OK"
       /\ Len(r.body.history) = mutations[t]
       /\ \A i, j \in 1..Len(r.body.history) :
             i < j => ItemId(r.body.history[i]) > ItemId(r.body.history[j])

\* C8: UpdateTodo, or DeleteTodo by an admin, of a positive id that no todo
\* has, the request otherwise valid and the store not failing, answers
\* NotFound and changes neither table.
MissingTargetNotFound ==
    [][(/\ Served
        /\ resp'.fault = "none"
        /\ \/ resp'.op = "UpdateTodo" /\ ~InvalidInput(resp'.req)
           \/ resp'.op = "DeleteTodo" /\ IsAdmin(resp'.userID)
        /\ resp'.req.Id > 0
        /\ resp'.req.Id \notin DOMAIN todo)
          => /\ resp'.code = "NotFound"
             /\ todo' = todo
             /\ todo_history' = todo_history]_vars

\* The todo id is gone: GetTodo answers NotFound and ListTodoHistory answers
\* an empty list.
Gone(t) ==
    /\ ApiGetTodo(t).code = "NotFound"
    /\ ApiListTodoHistory(t).code = "OK"
    /\ ApiListTodoHistory(t).body.history = <<>>

\* C9: once DeleteTodo(T) has succeeded, GetTodo(T) answers NotFound and
\* ListTodoHistory(T) answers an empty list, and every id the sequence has
\* handed out that is gone stays gone whatever is served next.
DeletedStaysGone ==
    [][/\ (Served /\ resp'.op = "DeleteTodo" /\ resp'.code = "OK")
             => (Gone(resp.req.Id))'
       /\ \A t \in 1..todo_id_seq : Gone(t) => (Gone(t))']_vars

\* A todo was created, deleted, and then another todo was created.
DeletedStaysGoneWitness ==
    /\ resp.op = "CreateTodo"
    /\ resp.code = "OK"
    /\ \E t \in DOMAIN mutations :
          t # resp.row /\ mutations[t] = 2 /\ t \notin DOMAIN todo

\* C10: the ledger row a create, update or delete writes names as actor the
\* actor user id the request supplies when that is not zero, and otherwise the
\* owner: the request's owner for create and update, the owner the row had
\* before the delete for delete.
ActorResolved ==
    [][(Served /\ resp'.op \in MutationOps /\ resp'.code = "OK") =>
          LET expected ==
                 IF ReqActor(resp'.req) # 0 THEN ReqActor(resp'.req)
                 ELSE IF resp'.op = "DeleteTodo"
                      THEN todo[resp'.row].UserID.Int32
                      ELSE ReqOwner(resp'.req)
          IN \A h \in todo_history' \ todo_history :
                h.ActorUserID = Int4(expected)]_vars


\* The snapshot a ledger row holds: every column but the acting user, which
\* the schema sets to NULL when that user is deleted.
Snapshot(h) == [h EXCEPT !.ActorUserID = NullInt4]

\* C12: a committed ledger row is never modified: under every operation its
\* snapshot fields, its change kind and its timestamp keep their values, and
\* the row disappears only when its todo is deleted.
LedgerRowsImmutable ==
    [][\A h \in todo_history :
          IF \E g \in todo_history' : g.ID = h.ID
          THEN \A g \in todo_history' : g.ID = h.ID => Snapshot(g) = Snapshot(h)
          ELSE h.TodoID \in DOMAIN todo /\ h.TodoID \notin DOMAIN todo']_vars


ReqCreatedRec(req) ==
    IF variant = "rpc" THEN req.CreatedAtRecordingId ELSE req.CreatedAtRecordingID
ReqUpdatedRec(req) ==
    IF variant = "rpc" THEN req.UpdatedAtRecordingId ELSE req.UpdatedAtRecordingID

\* No stored recording reference is the number 0.
NoZeroReference ==
    \A r \in RowsOf(todo) \cup todo_history :
       /\ r.CreatedAtRecordingID # Int4(0)
       /\ r.UpdatedAtRecordingID # Int4(0)

\* A create/update request nothing but its unset recording id distinguishes
\* from one that succeeds: valid input, existing owner, actor and target, no
\* store failure, and each recording id either unset or an existing recording.
UnsetRecordingRequest(op, req, fault) ==
    /\ op \in {"CreateTodo", "UpdateTodo"}
    /\ fault = "none"
    /\ ~InvalidInput(req)
    /\ ReqOwner(req) \in DOMAIN user
    /\ ReqActor(req) \in {0} \cup DOMAIN user
    /\ op = "UpdateTodo" => req.Id \in DOMAIN todo
    /\ ReqUpdatedRec(req) \in {0} \cup recording
    /\ op = "CreateTodo" => ReqCreatedRec(req) \in {0} \cup recording
    /\ \/ ReqUpdatedRec(req) = 0
       \/ op = "CreateTodo" /\ ReqCreatedRec(req) = 0

\* C13: no todo row and no ledger row ever stores 0 in a recording reference;
\* a create or update issued with a zero (unset) recording id succeeds and
\* persists NULL in that field of the row and of its ledger snapshot, and a
\* later GetTodo of the row reports the field as absent.
UnsetRecordingStoredNull ==
    [][/\ NoZeroReference'
       /\ (Served /\ UnsetRecordingRequest(resp'.op, resp'.req, resp'.fault)) =>
             /\ resp'.code = "OK"
             /\ \E t \in DOMAIN todo' :
                   /\ t = resp'.row
                   /\ \A r \in {todo'[t]}
                            \cup {h \in todo_history' \ todo_history : h.TodoID = t} :
                         /\ ReqUpdatedRec(resp'.req) = 0 =>
                                r.UpdatedAtRecordingID = NullInt4
                         /\ (resp'.op = "CreateTodo" /\ ReqCreatedRec(resp'.req) = 0) =>
                                r.CreatedAtRecordingID = NullInt4
                   /\ (ApiGetTodo(t).code = "OK")'
                   /\ ReqUpdatedRec(resp'.req) = 0 =>
                         (ReqUpdatedRec(ApiGetTodo(t).body.todo) = 0)']_vars


\* C15: the RPC services' DeleteTodo and DeleteRecording, called by a caller
\* whose role is not exactly "admin" (a NULL role and a caller id with no user
\* row included), answer PermissionDenied, never Internal or a validation
\* failure, and remove nothing.
NonAdminGetsPermissionDenied ==
    [][(Served /\ variant = "rpc"
               /\ resp'.op \in {"DeleteTodo", "DeleteRecording"}
               /\ ~IsAdmin(resp'.userID))
          => /\ resp'.code = "PermissionDenied"
             /\ todo' = todo
             /\ todo_history' = todo_history
             /\ recording' = recording]_vars


\* The ordinary logged-in user of the lifecycle: user 2, whose role is "tester".
Tester == 2

OwnedByTester(t) == t \in DOMAIN todo /\ todo[t].UserID = Int4(Tester)

\* A step of the lifecycle the tester runs on a todo of their own: nothing
\* fails in the store, the input is valid and names existing recordings.
LifecycleStep(op, req, fault, userID) ==
    /\ fault = "none"
    /\ CASE op = "CreateTodo" ->
               /\ ~InvalidInput(req)
               /\ ReqOwner(req) = Tester
               /\ ReqActor(req) \in {0, Tester}
               /\ ReqCreatedRec(req) \in recording
               /\ ReqUpdatedRec(req) \in recording
         [] op = "UpdateTodo" ->
               /\ ~InvalidInput(req)
               /\ OwnedByTester(req.Id)
               /\ ReqOwner(req) = Tester
               /\ ReqActor(req) \in {0, Tester}
               /\ ReqUpdatedRec(req) \in recording
         [] op = "ListTodos" ->
               IF variant = "rpc"
               THEN req.UserId = Tester /\ ~req.RecordingId.set
               ELSE req.user_id.set /\ req.user_id.v = Tester
         [] op = "ListTodoHistory" -> OwnedByTester(req.TodoId)
         [] op = "DeleteTodo" ->
               /\ OwnedByTester(req.Id)
               /\ userID = Tester
               /\ ReqActor(req) \in {0, Tester}
         [] OTHER -> FALSE

\* C16: every step of the lifecycle an ordinary logged-in user (role "tester")
\* runs on a todo of their own succeeds: CreateTodo, ListTodos, UpdateTodo,
\* ListTodoHistory (which lists at least two rows once the todo was created
\* and updated) and DeleteTodo.
TesterLifecycleSucceeds ==
    [][(Served /\ LifecycleStep(resp'.op, resp'.req, resp'.fault, resp'.userID))
          => /\ resp'.code = "OK"
             /\ (resp'.op = "ListTodoHistory" /\ mutations[resp'.req.TodoId] >= 2)
                   => Len(resp'.body.history) >= 2]_vars


\* The same todo request in the other variant's message: the fields under the
\* other variant's names, a canonical status under its other spelling.
StatusCodeOf(label) ==
    CHOOSE c \in TodoStatus : mapStatusToString(c) = label

ToHttp(m) ==
    [f \in {"Name", "Desc", "Status", "UserID", "CreatedAtRecordingID",
             "UpdatedAtRecordingID", "ActorUserID"}
            \cup (DOMAIN m \cap {"Id"}) |->
        CASE f = "Status" -> mapStatusToString(m.Status)
          [] f = "UserID" -> m.UserId
          [] f = "CreatedAtRecordingID" -> m.CreatedAtRecordingId
          [] f = "UpdatedAtRecordingID" -> m.UpdatedAtRecordingId
          [] f = "ActorUserID" -> m.ActorUserId
          [] OTHER -> m[f]]

ToRpc(r) ==
    [f \in {"Name", "Desc", "Status", "UserId", "CreatedAtRecordingId",
             "UpdatedAtRecordingId", "ActorUserId"}
            \cup (DOMAIN r \cap {"Id"}) |->
        CASE f = "Status" -> StatusCodeOf(r.Status)
          [] f = "UserId" -> r.UserID
          [] f = "CreatedAtRecordingId" -> r.CreatedAtRecordingID
          [] f = "UpdatedAtRecordingId" -> r.UpdatedAtRecordingID
          [] f = "ActorUserId" -> r.ActorUserID
          [] OTHER -> r[f]]

\* The todo requests both variants can be sent: every read and delete, and
\* the creates and updates whose status is one of the five canonical ones.
Translatable(op, req) ==
    \/ op \in {"DeleteTodo", "GetTodo", "ListTodoHistory"}
    \/ /\ op \in {"CreateTodo", "UpdateTodo"}
       /\ ReportedStatus(req.Status) \in CanonicalStatus

\* What the other variant's handler answers to the request, on the current
\* store and at the same transaction start time.
OtherVariant(op, req, fault, userID) ==
    IF variant = "rpc"
    THEN CASE op = "CreateTodo" ->
                 handleCreateTodo(Database, now + 1, ToHttp(req), fault)
           [] op = "UpdateTodo" ->
                 handleUpdateTodo(Database, now + 1, ToHttp(req), fault)
           [] op = "DeleteTodo" ->
                 handleDeleteTodo(Database, now + 1,
                     [Id |-> req.Id, ActorUserID |-> req.ActorUserId], fault)
           [] op = "GetTodo" -> handleGetTodo(Database, req)
           [] OTHER -> handleListTodoHistory(Database, req)
    ELSE CASE op = "CreateTodo" ->
                 CreateTodo(Database, now + 1, ToRpc(req), fault)
           [] op = "UpdateTodo" ->
                 UpdateTodo(Database, now + 1, ToRpc(req), fault)
           [] op = "DeleteTodo" ->
                 DeleteTodo(Database, now + 1,
                     [Id |-> req.Id, ActorUserId |-> req.ActorUserID], fault, userID)
           [] op = "GetTodo" -> GetTodo(Database, req)
           [] OTHER -> ListTodoHistory(Database, req)

\* C17: the plain-HTTP and the RPC variant are equivalent on the todo
\* operations: the same request by the same caller on the same store gets the
\* same outcome category from both and leaves the same todo and todo_history
\* tables.
VariantsEquivalent ==
    [][(Served /\ Translatable(resp'.op, resp'.req)) =>
          LET other == OtherVariant(resp'.op, resp'.req, resp'.fault, resp'.userID)
          IN /\ other.code = resp'.code
             /\ other.db.todo = todo'
             /\ other.db.todo_history = todo_history']_vars


\* The legacy tokens the read path knows.
LegacySynonyms == {s_pending, s_in_progress, s_in_progress_sp, s_completed}

\* C20: mapStatus returns a display category for every stored string; in any
\* letter case and with any white space around it, completed maps to done and
\* in_progress and "in progress" map to partial, and a string that spells
\* neither a canonical status nor a known legacy synonym maps to unspecified.
DisplayMappingTotal ==
    display.category # "none" =>
       /\ display.category \in TodoStatus
       /\ display.word = s_completed => display.category = "TODO_STATUS_DONE"
       /\ display.word \in {s_in_progress, s_in_progress_sp} =>
             display.category = "TODO_STATUS_PARTIAL"
       /\ display.word \notin CanonicalStatus \cup LegacySynonyms =>
             display.category = "TODO_STATUS_UNSPECIFIED"

\* "completed" in mixed case with white space around it was mapped.
DisplayMappingWitness ==
    /\ display.word = s_completed
    /\ display.status # s_completed
    /\ ToLower(display.status) # display.status
    /\ TrimSpace(display.status) # display.status
    /\ display.category = "TODO_STATUS_DONE"


\* This step served a request that met the auth guard.
MetGuard == guard'.seq # guard.seq

\* The header carries a token login issued (so one signed with the server's
\* secret) whose expiry the clock has not reached.
ValidCredential(h) ==
    /\ h.kind = "bearer"
    /\ \E i \in tokens :
          /\ i.tok = h.token
          /\ h.token.sig.key = jwtSecret
          /\ clock < h.token.exp * TicksPerSecond

\* C14: a RecordingsService, TodosService or UsersService operation runs only
\* for a request whose bearer token is signed with the server secret and
\* unexpired; a request without such a token is answered Unauthenticated, its
\* handler does not run and the store is left as it was; the requests served
\* without a credential are login and /healthz only, and those are served.
ServicesNeedCredential ==
    [][MetGuard =>
        /\ (guard'.path \in ServicePaths /\ guard'.ran)
              => ValidCredential(guard'.header)
        /\ (guard'.path \in ServicePaths /\ ~ValidCredential(guard'.header))
              => /\ guard'.code = "Unauthenticated"
                 /\ ~guard'.ran
                 /\ UNCHANGED <<user, recording, todo, todo_history,
                                todo_id_seq, todo_history_id_seq, now>>
        /\ (guard'.ran /\ ~ValidCredential(guard'.header))
              => guard'.path \in ExemptPaths
        /\ guard'.path \in ExemptPaths => guard'.ran]_vars

\* After a todo was created with a token, a request for the same operation
\* without a token was turned away.
ServicesNeedCredentialWitness ==
    /\ guard.path = "TodosService"
    /\ guard.header.kind = "missing"
    /\ ~guard.ran
    /\ guard.code = "Unauthenticated"
    /\ DOMAIN todo = {1}
    /\ tokens # {}

\* C18: a token login issued at time t under TTL d is accepted by the guard
\* only at times before t + d, and from t + d on every request presenting it
\* is answered Unauthenticated; a token that is not signed with the server's
\* secret, or is signed with a method that is not HMAC, is never accepted.
TokenAcceptedOnlyWithinTTL ==
    [][(MetGuard /\ guard'.path \in ServicePaths /\ guard'.header.kind = "bearer") =>
        LET tok == guard'.header.token IN
        /\ \A i \in tokens :
              i.tok = tok =>
                 /\ guard'.ran => clock < i.at + tokenTTL * TicksPerSecond
                 /\ clock >= i.at + tokenTTL * TicksPerSecond =>
                       ~guard'.ran /\ guard'.code = "Unauthenticated"
        /\ (\/ tok.alg \notin SigningMethodHMAC
            \/ tok.sig # Sign(tok.alg, jwtSecret, tok.sub, tok.exp))
              => ~guard'.ran /\ guard'.code = "Unauthenticated"]_vars

\* A token presented at the very time its TTL ran out was turned away.
TokenExpiredWitness ==
    \E i \in tokens :
       /\ guard.path \in ServicePaths
       /\ guard.header = [kind |-> "bearer", token |-> i.tok]
       /\ clock = i.at + tokenTTL * TicksPerSecond
       /\ ~guard.ran
       /\ guard.code = "Unauthenticated"


\* This step served a mutation whose context ended inside its transaction.
Cancelled == Served /\ resp'.fault \in CancelPoints

\* No connection is in the pool with a transaction open on it.
NoPooledOpenTx == conn.status = "pooled" => conn.tx = "I"

AllDone == \A p \in Workers : txn[p].pc = "done"

\* The call can take its next step: it is not waiting for a row lock.
CanStep(p) ==
    /\ txn[p].pc # "done"
    /\ txn[p].pc = "begun" => ~RowLocked(int32(txn[p].msg.Id), p)

\* The row (a todo row, or a ledger snapshot with its name) holds the values
\* the call's request carried.
ValuesAreOf(name, row, p) ==
    /\ name = txn[p].msg.Name
    /\ row.Desc.String = txn[p].msg.Desc
    /\ row.Status = Text(mapStatusToString(txn[p].msg.Status))
    /\ row.UserID = Int4(txn[p].msg.UserId)
    /\ row.UpdatedAtRecordingID = Int4(txn[p].msg.UpdatedAtRecordingId)

UpdateRows(t) == {h \in todo_history : h.TodoID = t /\ h.ChangeType = "update"}

\* C11: two UpdateTodo calls running concurrently on the same existing todo
\* never block each other for good and both succeed; the todo's final row
\* holds the values of the call whose UPDATE was applied last; the ledger has
\* gained exactly two update rows, one per call, also when a call's values
\* equal the row it updates.
LastWriterWins ==
    /\ ~AllDone => \E p \in Workers : CanStep(p)
    /\ Cardinality(UpdateRows(1)) = Cardinality({p \in Workers : txn[p].code = "OK"})
    /\ AllDone =>
          /\ \A p \in Workers : txn[p].code = "OK"
          /\ Len(writes) = 2
          /\ ValuesAreOf(todo[1].Name, todo[1], writes[2])
          /\ todo[1].CreatedAtRecordingID = Int4(1)
          /\ Cardinality(UpdateRows(1)) = 2
          /\ \A p \in Workers :
                \E h \in UpdateRows(1) :
                   h.ChangedAt = txn[p].txStart /\ ValuesAreOf(h.Name.String, h, p)

\* Call 1 began first and call 2 wrote first, so call 1 waited for the row
\* and wrote last: its values, equal to the row as it was created, are the
\* final row, and both calls left their ledger row.
LastWriterWinsWitness ==
    /\ AllDone
    /\ txn[1].txStart < txn[2].txStart
    /\ writes = <<2, 1>>
    /\ txn[1].msg = WithId(RpcBase, 1)
    /\ txn[2].msg.Name = <<"b">>
    /\ todo[1].Name = <<"a">>
    /\ Cardinality(UpdateRows(1)) = 2

-----------------------------------------------------------------------------
(* Listing todos *)

\* The ids of a list response's items, in the order of the response.
ListedIds(body) == [i \in 1..Len(body.todos) |-> ItemId(body.todos[i])]

StrictlyDescending(ids) == \A i \in 1..(Len(ids) - 1) : ids[i] > ids[i + 1]

\* The one key a list request supplies, if it supplies exactly one.
ByOwner(req) ==
    IF variant = "rpc" THEN ~req.RecordingId.set /\ req.UserId # 0
    ELSE req.user_id.set
ByRecording(req) ==
    variant = "rpc" /\ req.RecordingId.set /\ req.UserId = 0
ListOwner(req) == IF variant = "rpc" THEN req.UserId ELSE req.user_id.v

\* The todos the request asks for, in the committed state.
OwnedBy(u) == {t \in DOMAIN todo : todo[t].UserID = Int4(u)}
CreatedAt(x) == {t \in DOMAIN todo : todo[t].CreatedAtRecordingID = Int4(x)}

\* The item a list response carries for a todo row.
ListItem(t) ==
    IF variant = "rpc" THEN TodoMessage(todo[t]) ELSE ScanTodo(todo[t]).todo

\* C21: a successful ListTodos by owner returns exactly the todos whose owner
\* id equals the requested user id, in strictly descending id order and as the
\* committed rows stand; by recording, exactly the todos whose created-recording
\* id equals the requested recording, also descending by id.
ListTodosExact ==
    [][(/\ Served
        /\ resp'.op = "ListTodos"
        /\ resp'.code = "OK"
        /\ (ByOwner(resp'.req) \/ ByRecording(resp'.req)))
       => LET ids == ListedIds(resp'.body)
              asked == IF ByOwner(resp'.req)
                       THEN OwnedBy(ListOwner(resp'.req))
                       ELSE CreatedAt(resp'.req.RecordingId.v)
          IN /\ StrictlyDescending(ids)
             /\ {ids[i] : i \in DOMAIN ids} = asked
             /\ \A i \in DOMAIN ids : resp'.body.todos[i] = ListItem(ids[i])]_vars

\* The keys a list request supplies.
SuppliesOwner(req) ==
    IF variant = "rpc" THEN req.UserId # 0 ELSE req.user_id.set
SuppliesRecording(req) == variant = "rpc" /\ req.RecordingId.set

\* C22: ListTodos filters by exactly one of the two keys: a request supplying
\* neither a recording id nor a non-zero owner id fails with InvalidArgument,
\* and a request supplying both keys is not answered with a list that ignores
\* one of them (every todo it is answered with has the owner and the
\* created-recording it named).
ListTodosOneKey ==
    [][(Served /\ resp'.op = "ListTodos")
       => LET req == resp'.req IN
          /\ (~SuppliesOwner(req) /\ ~SuppliesRecording(req))
                => resp'.code = "InvalidArgument"
          /\ (SuppliesOwner(req) /\ SuppliesRecording(req) /\ resp'.code = "OK")
                => LET ids == ListedIds(resp'.body) IN
                   \A i \in DOMAIN ids :
                      /\ ids[i] \in OwnedBy(ListOwner(req))
                      /\ ids[i] \in CreatedAt(req.RecordingId.v)]_vars

-----------------------------------------------------------------------------
(* Recordings *)

\* The stored audio URL of a recording is present and non-empty.
HasStoredAudio(id) == audio_url[id].Valid /\ audio_url[id].String # EmptyString

\* C23: every recording returned by ListRecordings or GetRecording has
\* has_audio true exactly when its stored audio URL is present and non-empty,
\* and ListRecordings lists a recording stored without an audio URL, with
\* has_audio false.
HasAudioMatchesUrl ==
    [][(Served /\ resp'.op \in {"ListRecordings", "GetRecording"})
       => /\ resp'.code = "OK"
               => \A m \in resp'.body.recordings :
                     m.HasAudio <=> HasStoredAudio(m.Id)
          /\ resp'.op = "ListRecordings"
               => \A id \in recording :
                     ~audio_url[id].Valid
                        => /\ resp'.code = "OK"
                           /\ \E m \in resp'.body.recordings :
                                 m.Id = id /\ ~m.HasAudio]_vars

-----------------------------------------------------------------------------
(* The ledger row of a mutation *)

\* The ledger row holds the six values of the todo row.
HoldsValuesOf(h, row) ==
    /\ h.Name = Text(row.Name)
    /\ h.Desc = row.Desc
    /\ h.Status = row.Status
    /\ h.UserID = row.UserID
    /\ h.CreatedAtRecordingID = row.CreatedAtRecordingID
    /\ h.UpdatedAtRecordingID = row.UpdatedAtRecordingID

\* C24: the ledger row a successful CreateTodo or UpdateTodo appends holds
\* exactly the name, description, status, owner, created-recording and
\* updated-recording of the todo row as the call's statement left it, with
\* change kind create or update; the row DeleteTodo appends holds the values
\* of the todo as it was before the removal, with change kind delete.
LedgerRowHoldsTodoValues ==
    [][(Served /\ resp'.op \in MutationOps /\ resp'.code = "OK")
       => /\ Cardinality(resp'.log) = 1
          /\ \A h \in resp'.log :
                /\ h.ChangeType = ChangeTypeOf(resp'.op)
                /\ IF resp'.op = "DeleteTodo"
                   THEN /\ h.TodoID \in DOMAIN todo
                        /\ h.TodoID \notin DOMAIN todo'
                        /\ HoldsValuesOf(h, todo[h.TodoID])
                   ELSE /\ h.TodoID \in DOMAIN todo'
                        /\ HoldsValuesOf(h, todo'[h.TodoID])]_vars

\* A todo was created, updated and then deleted, and the delete appended its
\* ledger row.
LedgerRowWitness ==
    /\ resp.op = "DeleteTodo"
    /\ resp.code = "OK"
    /\ \E h \in resp.log :
          /\ h.ChangeType = "delete"
          /\ h.TodoID \in DOMAIN mutations
          /\ mutations[h.TodoID] = 3

-----------------------------------------------------------------------------
(* Updates *)

\* The ledger row of the todo's creation.
CreateRows(t) ==
    {h \in todo_history : h.TodoID = t /\ h.ChangeType = "create"}

\* C25: a successful UpdateTodo replaces name, description, status, owner and
\* updated-recording of the todo with the request's values (an empty
\* description or an unset updated-recording leaves none stored) and leaves
\* its id and created-recording as they were; every todo's created-recording
\* is the one its creation recorded.
UpdateReplacesWholesale ==
    [][/\ (Served /\ resp'.op = "UpdateTodo" /\ resp'.code = "OK")
          => LET t == resp'.row
                 req == resp'.req
             IN /\ t \in DOMAIN todo /\ t \in DOMAIN todo'
                /\ todo'[t].Name = req.Name
                /\ todo'[t].Desc.String = req.Desc
                /\ todo'[t].Status = Text(ReportedStatus(req.Status))
                /\ todo'[t].UserID = Int4(ReqOwner(req))
                /\ todo'[t].UpdatedAtRecordingID = nullInt(ReqUpdatedRec(req))
                /\ todo'[t].ID = todo[t].ID
                /\ todo'[t].CreatedAtRecordingID = todo[t].CreatedAtRecordingID
       /\ \A t \in DOMAIN todo' :
             \A h \in CreateRows(t)' :
                h.CreatedAtRecordingID = todo'[t].CreatedAtRecordingID]_vars

-----------------------------------------------------------------------------
(* The ledger's newest row under concurrent updates *)

\* C26: after any interleaving of concurrent, committed UpdateTodo calls on a
\* todo, the first row ListTodoHistory returns for it (the one with the
\* largest changed_at, the start time of its transaction) carries the name,
\* description, status, owner and recording references of the todo's current
\* row.
NewestLedgerRowIsCurrent ==
    (AllDone /\ \A p \in Workers : txn[p].code = "OK")
       => LET rows == SqlListTodoHistory(Database, 1) IN
          /\ Len(rows) >= 1
          /\ HoldsValuesOf(rows[1], todo[1])

-----------------------------------------------------------------------------
(* Delete rows of the ledger *)

\* C27: no committed state holds a todo_history row of change kind delete (the
\* row DeleteTodo inserts goes with the todo, by the cascade, in the same
\* transaction), and ListTodoHistory returns no delete entry for any todo id.
NoDeleteRowCommitted ==
    /\ \A h \in todo_history : h.ChangeType # "delete"
    /\ \A t \in TodoIds :
          LET r == ApiListTodoHistory(t) IN
          r.code = "OK" =>
             \A i \in 1..Len(r.body.history) :
                r.body.history[i].ChangeType # "delete"

\* A DeleteTodo committed: its transaction inserted a delete row for a todo
\* that had a ledger, and neither the todo nor a ledger row of it is left.
NoDeleteRowWitness ==
    /\ resp.op = "DeleteTodo"
    /\ resp.tx = "commit"
    /\ \E h \in resp.log :
          /\ h.ChangeType = "delete"
          /\ h.TodoID \notin DOMAIN todo
          /\ \A g \in todo_history : g.TodoID # h.TodoID

-----------------------------------------------------------------------------
(* Concurrent deletes *)

\* Both calls are an admin's DeleteTodo of todo 1, which exists at the start.
BothDeleteTodo1 ==
    \A p \in Workers : txn[p].msg = [Id |-> 1, ActorUserId |-> 0] /\ txn[p].userID = 1

\* C28: of two DeleteTodo calls by admin callers that run concurrently on the
\* same existing todo, exactly one returns success and the other NotFound,
\* neither returns an Internal failure, and afterwards there is neither a
\* todo row nor a ledger row for that id.
OneDeleteWins ==
    (AllDone /\ BothDeleteTodo1)
       => /\ \E p \in Workers :
                /\ txn[p].code = "OK"
                /\ \A q \in Workers \ {p} : txn[q].code = "NotFound"
          /\ 1 \notin DOMAIN todo
          /\ \A h \in todo_history : h.TodoID # 1

-----------------------------------------------------------------------------
(* Referential integrity *)

\* The tables are left as they were.
TablesUnchanged == UNCHANGED <<user, recording, todo, todo_history>>

\* The request names an owner or a recording that has no row.
NamesMissingRow(op, req) ==
    \/ ReqOwner(req) \notin DOMAIN user
    \/ ReqUpdatedRec(req) # 0 /\ ReqUpdatedRec(req) \notin recording
    \/ /\ op = "CreateTodo"
       /\ ReqCreatedRec(req) # 0
       /\ ReqCreatedRec(req) \notin recording

\* A todo row refers to the recording.
Referenced(id) ==
    \E t \in DOMAIN todo :
       \/ todo[t].CreatedAtRecordingID = Int4(id)
       \/ todo[t].UpdatedAtRecordingID = Int4(id)

\* Every reference of the todo and todo_history rows has its row.
ReferencesExist ==
    /\ \A t \in DOMAIN todo :
          /\ todo[t].UserID.Valid /\ todo[t].UserID.Int32 \in DOMAIN user
          /\ RefOk(todo[t].CreatedAtRecordingID, recording)
          /\ RefOk(todo[t].UpdatedAtRecordingID, recording)
    /\ \A h \in todo_history : h.TodoID \in DOMAIN todo

\* C29: in every committed state each todo's owner is an existing user, each
\* of its non-null recording ids an existing recording and each ledger row's
\* todo an existing todo; a CreateTodo or UpdateTodo naming a nonexistent
\* owner or recording, and an admin's DeleteRecording of a recording a todo
\* still refers to, fail and change no table.
ReferentialIntegrity ==
    [][/\ ReferencesExist'
       /\ (/\ Served
           /\ resp'.op \in {"CreateTodo", "UpdateTodo"}
           /\ NamesMissingRow(resp'.op, resp'.req))
          => resp'.code # "OK" /\ TablesUnchanged
       /\ (/\ Served
           /\ resp'.op = "DeleteRecording"
           /\ IsAdmin(resp'.userID)
           /\ Referenced(resp'.req.Id))
          => resp'.code # "OK" /\ TablesUnchanged]_vars

-----------------------------------------------------------------------------
(* 64-bit request ids *)

\* C30: request ids are 64-bit and are narrowed to 32 bits on their way to
\* the store; for every id that is not the id of an existing todo, GetTodo,
\* UpdateTodo and DeleteTodo answer NotFound and touch no row, also when the
\* id's low 32 bits are an existing todo's id; and no todo is stored with
\* owner 0 (an owner that is a non-zero multiple of 2^32 does not become 0).
NarrowedIdNotFound ==
    [][variant = "rpc" =>
         /\ (/\ Served
             /\ resp'.fault = "none"
             /\ \/ resp'.op = "GetTodo"
                \/ resp'.op = "UpdateTodo" /\ ~InvalidInput(resp'.req)
                \/ resp'.op = "DeleteTodo" /\ IsAdmin(resp'.userID)
             /\ resp'.req.Id \notin DOMAIN todo)
            => /\ resp'.code = "NotFound"
               /\ todo' = todo
               /\ todo_history' = todo_history
         /\ \A t \in DOMAIN todo' : todo'[t].UserID # Int4(0)]_vars

====
